---- MODULE Spec2Model ----
(***************************************************************************)
(* Verification model of fsabiu/real-time-object-detection.                *)
(*                                                                         *)
(* Part I  : ThreadedPipeline (src/src/core/pipeline.py): the capture,     *)
(*           inference and output threads, the two bounded queues and the  *)
(*           stop event.                                                   *)
(* Part II : TAKCoTSender (src/src/modules/tak.py): the pending list, the  *)
(*           batch timer, the per-track rate limit, the send queue and     *)
(*           the sender thread with its TLS connection.                    *)
(*                                                                         *)
(* Part III: TAKCoTSender.build_cot_message: the UID of a message.         *)
(* Part IV : SSEBroadcaster and the /events handlers                       *)
(*           (src/src/modules/sse.py).                                     *)
(* Part V  : BasePipeline.run and _reconnect_stream (src/detector_legacy.py):*)
(*           the demux loop, its error counter and the reconnection.       *)
(*                                                                         *)
(* Part VI : ThreadedPipeline._capture_thread on a stream error, and the   *)
(*           latest-telemetry slot of both pipelines.                      *)
(* Part VII: KLVDecoder.decode (src/src/modules/klv.py).                   *)
(* Part VIII: calculate_object_coordinates (src/src/modules/geo.py).       *)
(* Part IX : ThreadedPipeline._output_thread: what it does with one frame. *)
(* Part X  : TAKCoTSender statement by statement: locks and counters.      *)
(* Part XI : WebSocketWriter (src/src/outputs/websocket.py): its event loop.*)
(*                                                                         *)
(* Each part has its own next-state relation and specification; the        *)
(* variables of the other parts keep their initial values.                 *)
(***************************************************************************)
EXTENDS Integers, Sequences, FiniteSets, TLC

VARIABLES
    \* ---- ThreadedPipeline ----
    batch_output,      \* TRUE iff self.batch_output is set (batch mode)
    skip_frames,       \* self.skip_frames
    stop_event,        \* self.stop_event.is_set()
    inference_queue,   \* self.inference_queue: frame indices, oldest first
    output_queue,      \* self.output_queue: frame indices, oldest first
    frame_count,       \* self.frame_count
    packets_left,      \* video packets the container has not yet demuxed
    pcCap,             \* position of _capture_thread
    capFrame,          \* the FrameData the capture thread holds
    pcInf,             \* position of _inference_thread
    infFrame,          \* the FrameData the inference thread holds
    pcOut,             \* position of _output_thread
    pcMain,            \* position of run() after the threads were started
    infSeen,           \* history: frame indices taken by the inference stage
    outSeen,           \* history: frame indices processed by the output stage
    discarded,         \* history: frame the inference stage's leaky put threw away
    \* ---- TAKCoTSender ----
    now,                  \* time.time(), in seconds
    serverUp,             \* environment: the TAK server accepts connections
    sockOk,               \* self.ssl_socket is an open socket whose peer is alive
    connected,            \* self.connected
    ready,                \* self.ready
    tak_stop,             \* TAKCoTSender.stop_event.is_set()
    message_queue,        \* self.message_queue: CoT messages, oldest first
    messages_sent,        \* self.messages_sent
    messages_dropped,     \* self.messages_dropped
    pending_detections,   \* self.pending_detections, oldest first
    last_send_time,       \* self.last_send_time: track_id -> timestamp (0: absent)
    last_batch_send_time, \* self.last_batch_send_time
    batch_lock,           \* holder of self.batch_lock
    detection_batch,      \* items _send_detection_batch has still to handle
    pcTimer,              \* position of _batch_timer_worker
    timerWake,            \* time at which stop_event.wait(batch_window) runs out (0: not waiting)
    pcSender,             \* position of _sender_worker
    message,              \* the message the sender thread holds
    pcDisc,               \* position of disconnect()
    submitted,            \* history: number of detections send_detection took in
    acceptedAt,           \* history: track_id -> times its messages were enqueued
    trimmed,              \* history: number of entries the trim of the pending list removed
    send_result,          \* history: what the last call of send_detection returned
    final_batch,          \* history: the list disconnect() handed to _send_detection_batch
    \* ---- build_cot_message ----
    det_a,             \* a detection and the frame_num passed with it
    det_b,             \* a second detection and its frame_num
    uid_a,             \* UID of the message built for det_a (Unbuilt before the call)
    uid_b,             \* UID of the message built for det_b
    \* ---- SSEBroadcaster and the /events handlers ----
    subscribers,       \* self._subscribers: the queues, named by their subscriber
    sse_queue,         \* subscriber -> content of its queue, oldest first
    pcHandler,         \* subscriber -> position of its do_GET handler thread
    handler_data,      \* subscriber -> the event its handler holds (0: none)
    client,            \* subscriber -> what the HTTP client does with the stream
    published,         \* history: number of publish() calls; also the last event
    sse_stop,          \* the stop_event given to start_sse_server is set
    \* ---- BasePipeline.run and _reconnect_stream ----
    pcRun,             \* position of run(): "loop", "demux", "backoff",
                       \* "rc_close", "rc_open", "exit", "stopped"
    consecutive_errors,\* the local counter of run()
    attempt,           \* the loop variable of _reconnect_stream
    container_open,    \* self.container is an open transport
    run_stop,          \* self._stop_event.is_set()
    reconnect_result,  \* what the last _reconnect_stream call returned
    last_open,         \* history: what the last re-open attempt found
    waits,             \* history: the sleeps of the current reconnection
    errors_in_a_row,   \* history: errors since the last demuxed packet
    last_backoff,      \* history: the kind of error of the last back-off
    packets_demuxed,   \* history: packets the demux loop has delivered
    reconnections,     \* history: calls of _reconnect_stream
    seen_keyframe,     \* the local flag of run()
    latest_klv,        \* self.latest_klv of the legacy pipeline
    packet_log,        \* history: video packets and re-opens, oldest first
    last_klv_result,   \* history: what the last KLVDecoder.decode call returned
    klv_seen,          \* history: a decode call has returned a non-empty record
    \* ---- ThreadedPipeline._capture_thread, stream errors ----
    capture_error,     \* history: container.demux() raised in the capture thread
    cap_latest_klv,    \* self.latest_klv of ThreadedPipeline
    cap_klv_result,    \* history: what the last decode call of the capture thread returned
    cap_klv_seen,      \* history: such a call has returned a non-empty record
    \* ---- KLVDecoder.decode ----
    klv_case,          \* how the blob was put together (its family and parts)
    klv_record,        \* the record the blob was encoded from, if it was
    klv_data,          \* the blob handed to decode: a sequence of bytes
    klv_done,          \* decode has returned
    klv_result,        \* what decode returned
    \* ---- calculate_object_coordinates ----
    geo_case,          \* the arguments: bbox, klv_data, frame_width, frame_height
    geo_done,          \* the call has returned
    geo_result,        \* what the call returned
    \* ---- ThreadedPipeline._output_thread, one frame ----
    out_config,        \* which of tak_sender, metadata_socket, sse_broadcaster are set
    out_frame,         \* frame_data: the frame the loop body is working on
    out_last,          \* history: what the loop body did for the frame taken last
    processed_count,   \* self.processed_count
    fault_before,      \* history: a send, publish or submission has failed
    frames_put,        \* the frames the inference thread has put on the output queue
    \* ---- TAKCoTSender, statement by statement ----
    lock,              \* holder of self.lock
    pcItem,            \* position of _send_detection_batch in its loop body
    dropped_read,      \* thread -> the value its "messages_dropped += 1" has read
    attempts,          \* history: number of put_nowait calls on the send queue
    access,            \* history: the accesses of guarded state the last step made
    \* ---- WebSocketWriter ----
    ws_clients,        \* self.clients: the connections, named by their client
    ws_lock,           \* holder of self._lock: the _broadcast inside its with block
    ws_blocked,        \* the coroutine whose lock.acquire() the loop thread waits in
    ws_handler,        \* client -> position of its _handle_websocket coroutine
    ws_paused,         \* client -> writing to its transport is paused
    ws_closed,         \* client -> ws.closed
    ws_calls,          \* number of write_frame / send_metadata calls made
    pcBroadcast,       \* call -> position of the _broadcast it scheduled
    broadcast_at,      \* call -> the client whose send_str its _broadcast awaits
    broadcast_left,    \* call -> clients its loop has still to visit
    dead_clients       \* call -> the local dead_clients of its _broadcast

pipeVars == <<batch_output, skip_frames, stop_event, inference_queue, output_queue,
              frame_count, packets_left, pcCap, capFrame, pcInf, infFrame, pcOut,
              pcMain, infSeen, outSeen, discarded>>

takVars == <<now, serverUp, sockOk, connected, ready, tak_stop, message_queue,
             messages_sent, messages_dropped, pending_detections, last_send_time,
             last_batch_send_time, batch_lock, detection_batch, pcTimer, timerWake,
             pcSender, message, pcDisc, submitted, acceptedAt,
             trimmed, send_result, final_batch>>

\* the history variables only send_detection and disconnect() write
takHist == <<trimmed, send_result, final_batch>>

cotVars == <<det_a, det_b, uid_a, uid_b>>

sseVars == <<subscribers, sse_queue, pcHandler, handler_data, client, published,
             sse_stop>>

runVars == <<pcRun, consecutive_errors, attempt, container_open, run_stop,
             reconnect_result, last_open, waits, errors_in_a_row, last_backoff,
             packets_demuxed, reconnections, seen_keyframe, latest_klv,
             packet_log, last_klv_result, klv_seen>>

\* what the packets of the demux loop write
packetVars == <<seen_keyframe, latest_klv, packet_log, last_klv_result, klv_seen>>

capErrVars == <<capture_error, cap_latest_klv, cap_klv_result, cap_klv_seen>>

klvVars == <<klv_case, klv_record, klv_data, klv_done, klv_result>>

geoVars == <<geo_case, geo_done, geo_result>>

outVars == <<out_config, out_frame, out_last, processed_count, fault_before, frames_put>>

raceVars == <<lock, pcItem, dropped_read, attempts, access>>

wsVars == <<ws_clients, ws_lock, ws_blocked, ws_handler, ws_paused, ws_closed,
            ws_calls, pcBroadcast, broadcast_at, broadcast_left, dead_clients>>

\* the variables of Parts X and following
restVars == <<raceVars, wsVars>>

\* the variables of Parts VIII and following
tailVars == <<geoVars, outVars, restVars>>

\* the variables of Parts VI and following
laterVars == <<capErrVars, klvVars, tailVars>>

\* the variables of Parts III and following
extVars == <<cotVars, sseVars, runVars, laterVars>>

vars == <<pipeVars, takVars, extVars>>

\* the variables of Parts II to VIII and of Parts X and following
beforeOutVars == <<takVars, cotVars, sseVars, runVars, capErrVars, klvVars, geoVars,
                   restVars>>

\* the variables of the parts other than II and X
asideRaceVars == <<pipeVars, cotVars, sseVars, runVars, capErrVars, klvVars, geoVars,
                   outVars, wsVars>>

\* the variables of the parts other than XI
asideWsVars == <<pipeVars, takVars, cotVars, sseVars, runVars, capErrVars, klvVars,
                 geoVars, outVars, raceVars>>

\* ---------------------------------------------------------------------------
\* Bounds of the model
\* ---------------------------------------------------------------------------
\* number of video frames the input delivers before end of input
NumFrames == 5
\* largest skip_frames value explored
MaxSkip == 1

\* ---------------------------------------------------------------------------
\* Program constants
\* ---------------------------------------------------------------------------
\* queue.Queue(maxsize=2) for both queues
QueueMaxSize == 2

NoFrame == 0

\* ---------------------------------------------------------------------------
\* queue.Queue operations as the pipeline uses them
\* ---------------------------------------------------------------------------
QueueFullOffByOne(q) == Len(q) > QueueMaxSize
\* Queue.full(): the queue holds maxsize items
QueueFull(q) == Len(q) >= QueueMaxSize

CanPutUnbounded(q) == TRUE
\* put() may complete / put_nowait() does not raise Full: a free slot exists
CanPut(q) == Len(q) < QueueMaxSize

\* ---------------------------------------------------------------------------
\* Part I: ThreadedPipeline
\* ---------------------------------------------------------------------------
InitPipeline ==
    /\ batch_output \in BOOLEAN
    /\ skip_frames \in 0..MaxSkip
    /\ stop_event = FALSE
    /\ inference_queue = <<>>
    /\ output_queue = <<>>
    /\ frame_count = 0
    /\ packets_left = NumFrames
    /\ pcCap = "demux"
    /\ capFrame = NoFrame
    /\ pcInf = "loop"
    /\ infFrame = NoFrame
    /\ pcOut = "loop"
    /\ pcMain = "wait"
    /\ infSeen = <<>>
    /\ outSeen = <<>>
    /\ discarded = NoFrame

NextFrameCountStuck(fc) == fc
\* self.frame_count += 1
NextFrameCount(fc) == fc + 1

\* the skip_frames test of the capture loop: TRUE when the frame is skipped
SkipFrame(fc) == skip_frames > 0 /\ fc % (skip_frames + 1) # 1

\* --- _capture_thread -------------------------------------------------------
\* the finally clause: self.stop_event.set(), then the thread ends
CaptureExit ==
    /\ stop_event' = TRUE
    /\ pcCap' = "done"
    /\ capFrame' = NoFrame

\* one iteration of "for packet in self.container.demux()" up to the push:
\* end of input, the stop check, a decode error, the skip_frames test, or a
\* new FrameData stamped with the incremented frame_count
CapDemux ==
    /\ pcCap = "demux"
    /\ IF packets_left = 0 \/ stop_event
         THEN /\ CaptureExit
              /\ UNCHANGED <<packets_left, frame_count>>
         ELSE /\ packets_left' = packets_left - 1
              /\ \E decoded \in BOOLEAN :
                    IF ~decoded
                      THEN UNCHANGED <<frame_count, pcCap, capFrame, stop_event>>
                      ELSE /\ frame_count' = NextFrameCount(frame_count)
                           /\ IF SkipFrame(frame_count')
                                THEN UNCHANGED <<pcCap, capFrame>>
                                ELSE /\ capFrame' = frame_count'
                                     /\ pcCap' = IF batch_output THEN "put"
                                                 ELSE "full_check"
                           /\ UNCHANGED stop_event
    /\ UNCHANGED <<takVars, extVars, batch_output, skip_frames, inference_queue, output_queue,
                   pcInf, infFrame, pcOut, pcMain, infSeen, outSeen, discarded>>

\* live mode: "if self.inference_queue.full():"
CapFullCheck ==
    /\ pcCap = "full_check"
    /\ pcCap' = IF QueueFull(inference_queue) THEN "get_nowait" ELSE "put"
    /\ UNCHANGED <<takVars, extVars, batch_output, skip_frames, stop_event, inference_queue,
                   output_queue, frame_count, packets_left, capFrame, pcInf,
                   infFrame, pcOut, pcMain, infSeen, outSeen, discarded>>

\* live mode: "try: self.inference_queue.get_nowait() except: pass"
CapGetNowait ==
    /\ pcCap = "get_nowait"
    /\ inference_queue' = IF inference_queue # <<>> THEN Tail(inference_queue)
                          ELSE inference_queue
    /\ pcCap' = "put"
    /\ UNCHANGED <<takVars, extVars, batch_output, skip_frames, stop_event, output_queue,
                   frame_count, packets_left, capFrame, pcInf, infFrame, pcOut,
                   pcMain, infSeen, outSeen, discarded>>

\* "self.inference_queue.put(frame_data)": blocks, without timeout, while the
\* queue is full (both modes end in this call)
CapPut ==
    /\ pcCap = "put"
    /\ CanPut(inference_queue)
    /\ inference_queue' = Append(inference_queue, capFrame)
    /\ pcCap' = "demux"
    /\ capFrame' = NoFrame
    /\ UNCHANGED <<takVars, extVars, batch_output, skip_frames, stop_event, output_queue,
                   frame_count, packets_left, pcInf, infFrame, pcOut, pcMain,
                   infSeen, outSeen, discarded>>

\* --- _inference_thread -----------------------------------------------------
\* "while not self.stop_event.is_set():"
InfLoop ==
    /\ pcInf = "loop"
    /\ pcInf' = IF stop_event THEN "done" ELSE "get"
    /\ UNCHANGED <<takVars, extVars, batch_output, skip_frames, stop_event, inference_queue,
                   output_queue, frame_count, packets_left, pcCap, capFrame,
                   infFrame, pcOut, pcMain, infSeen, outSeen, discarded>>

\* "frame_data = self.inference_queue.get(timeout=1.0)"; queue.Empty -> continue.
\* A frame taken is run through the tracker and gets its detections.
InfGet ==
    /\ pcInf = "get"
    /\ IF inference_queue # <<>>
         THEN /\ infFrame' = Head(inference_queue)
              /\ inference_queue' = Tail(inference_queue)
              /\ infSeen' = Append(infSeen, Head(inference_queue))
              /\ pcInf' = "put_nowait"
         ELSE /\ pcInf' = "loop"
              /\ UNCHANGED <<infFrame, inference_queue, infSeen>>
    /\ UNCHANGED <<takVars, extVars, batch_output, skip_frames, stop_event, output_queue,
                   frame_count, packets_left, pcCap, capFrame, pcOut, pcMain,
                   outSeen, discarded>>

\* "self.output_queue.put_nowait(frame_data)"; queue.Full -> the leaky branch
InfPutNowait ==
    /\ pcInf = "put_nowait"
    /\ IF CanPut(output_queue)
         THEN /\ output_queue' = Append(output_queue, infFrame)
              /\ infFrame' = NoFrame
              /\ pcInf' = "loop"
         ELSE /\ pcInf' = "leaky_get"
              /\ UNCHANGED <<output_queue, infFrame>>
    /\ UNCHANGED <<takVars, extVars, batch_output, skip_frames, stop_event, inference_queue,
                   frame_count, packets_left, pcCap, capFrame, pcOut, pcMain,
                   infSeen, outSeen, discarded>>

\* "self.output_queue.get_nowait()" inside "try: ... except: pass": when the
\* output thread emptied the queue meanwhile, Empty is raised and the frame in
\* hand is thrown away
InfLeakyGet ==
    /\ pcInf = "leaky_get"
    /\ IF output_queue # <<>>
         THEN /\ output_queue' = Tail(output_queue)
              /\ discarded' = Head(output_queue)
              /\ pcInf' = "leaky_put"
              /\ UNCHANGED infFrame
         ELSE /\ discarded' = infFrame
              /\ infFrame' = NoFrame
              /\ pcInf' = "loop"
              /\ UNCHANGED output_queue
    /\ UNCHANGED <<takVars, extVars, batch_output, skip_frames, stop_event, inference_queue,
                   frame_count, packets_left, pcCap, capFrame, pcOut, pcMain,
                   infSeen, outSeen>>

\* the second "self.output_queue.put_nowait(frame_data)" of the leaky branch
InfLeakyPut ==
    /\ pcInf = "leaky_put"
    /\ IF CanPut(output_queue)
         THEN /\ output_queue' = Append(output_queue, infFrame)
              /\ UNCHANGED discarded
         ELSE /\ discarded' = infFrame
              /\ UNCHANGED output_queue
    /\ infFrame' = NoFrame
    /\ pcInf' = "loop"
    /\ UNCHANGED <<takVars, extVars, batch_output, skip_frames, stop_event, inference_queue,
                   frame_count, packets_left, pcCap, capFrame, pcOut, pcMain,
                   infSeen, outSeen>>

\* --- _output_thread --------------------------------------------------------
\* "while not self.stop_event.is_set():"
OutLoop ==
    /\ pcOut = "loop"
    /\ pcOut' = IF stop_event THEN "done" ELSE "get"
    /\ UNCHANGED <<takVars, extVars, batch_output, skip_frames, stop_event, inference_queue,
                   output_queue, frame_count, packets_left, pcCap, capFrame,
                   pcInf, infFrame, pcMain, infSeen, outSeen, discarded>>

\* "frame_data = self.output_queue.get(timeout=1.0)"; queue.Empty -> continue.
\* A frame taken is georeferenced, drawn, written and broadcast.
OutGet ==
    /\ pcOut = "get"
    /\ IF output_queue # <<>>
         THEN /\ output_queue' = Tail(output_queue)
              /\ outSeen' = Append(outSeen, Head(output_queue))
         ELSE UNCHANGED <<output_queue, outSeen>>
    /\ pcOut' = "loop"
    /\ UNCHANGED <<takVars, extVars, batch_output, skip_frames, stop_event, inference_queue,
                   frame_count, packets_left, pcCap, capFrame, pcInf, infFrame,
                   pcMain, infSeen, discarded>>

\* --- run() -----------------------------------------------------------------
\* the wait loop of run() ends (stop event seen, capture thread dead, or
\* KeyboardInterrupt at any moment); its finally clause sets the stop event
MainStop ==
    /\ pcMain = "wait"
    /\ pcMain' = IF stop_event \/ pcCap = "done" THEN "done" ELSE "interrupted"
    /\ stop_event' = TRUE
    /\ UNCHANGED <<takVars, extVars, batch_output, skip_frames, inference_queue, output_queue,
                   frame_count, packets_left, pcCap, capFrame, pcInf, infFrame,
                   pcOut, infSeen, outSeen, discarded>>

CaptureStep == CapDemux \/ CapFullCheck \/ CapGetNowait \/ CapPut
InferenceStep == InfLoop \/ InfGet \/ InfPutNowait \/ InfLeakyGet \/ InfLeakyPut
OutputStep == OutLoop \/ OutGet
ThreadStep == CaptureStep \/ InferenceStep \/ OutputStep

NextPipeline ==
    \/ CapDemux \/ CapFullCheck \/ CapGetNowait \/ CapPut
    \/ InfLoop \/ InfGet \/ InfPutNowait \/ InfLeakyGet \/ InfLeakyPut
    \/ OutLoop \/ OutGet
    \/ MainStop

\* ---------------------------------------------------------------------------
\* Part II: TAKCoTSender
\* ---------------------------------------------------------------------------
\* Bounds of the dispatcher model
\* time.time() when the dispatcher is constructed; the wall clock is far
\* larger than any interval of the program, any value >= BatchWindow acts so
Epoch == 5
\* seconds of wall-clock time explored after construction
Horizon == 8
\* number of detections send_detection takes in (calls that return True)
MaxSubmissions == 2

MaxTime == Epoch + Horizon

\* seconds explored with callers that do not wait for the dispatcher
UnreadySeconds == 5
\* number of detections a burst submits
MaxBurst == 22

\* Bounds of the paced stream
\* seconds of the paced stream explored
PacedSeconds == 100
\* seconds by which the batch timer thread may wake up late
MaxLateness == 1
\* seconds explored while the server reads nothing
BacklogSeconds == 1010

\* Program constants (seconds, items)
\* self.update_interval = 3.0
UpdateInterval == 3
\* self.batch_window_seconds = 5.0
BatchWindow == 5
\* self.max_detections_per_batch = 5
MaxDetectionsPerBatch == 5
\* "if len(self.pending_detections) > 20"
MaxPending == 20
\* queue.Queue(maxsize=1000)
TakQueueMaxSize == 1000
\* "if len(self.last_send_time) > 1000"
MaxRateEntries == 1000
\* "cutoff_time = time.time() - 60.0"
PruneAge == 60

\* track ids the tracker hands out; NoTrack stands for a detection without one
TrackIds == {7}
NoTrack == 0
\* the detections submitted: those of a tracked object (the case the rate
\* limit is about)
Detections == TrackIds

InitTak ==
    /\ now = Epoch
    /\ serverUp \in BOOLEAN
    /\ sockOk = FALSE
    /\ connected = FALSE
    /\ ready = FALSE
    /\ tak_stop = FALSE
    /\ message_queue = <<>>
    /\ messages_sent = 0
    /\ messages_dropped = 0
    /\ pending_detections = <<>>
    /\ last_send_time = [t \in TrackIds |-> 0]
    /\ last_batch_send_time = 0
    /\ batch_lock = "free"
    /\ detection_batch = <<>>
    /\ pcTimer = "wait"
    /\ timerWake = Epoch + BatchWindow
    /\ pcSender = "connect"
    /\ message = <<>>
    /\ pcDisc = "idle"
    /\ submitted = 0
    /\ acceptedAt = [t \in TrackIds |-> <<>>]
    /\ trimmed = 0
    /\ send_result = "none"
    /\ final_batch = <<>>

\* s[a..b] of a Python slice, 1-based and clipped
Slice(s, a, b) == SubSeq(s, IF a < 1 THEN 1 ELSE a, IF b > Len(s) THEN Len(s) ELSE b)

\* --- environment -----------------------------------------------------------
\* one second of wall-clock time passes
Advance ==
    /\ now' = now + 1
    /\ UNCHANGED <<pipeVars, extVars, takHist, serverUp, sockOk, connected, ready, tak_stop,
                   message_queue, messages_sent, messages_dropped,
                   pending_detections, last_send_time, last_batch_send_time,
                   batch_lock, detection_batch, pcTimer, timerWake, pcSender,
                   message, pcDisc, submitted, acceptedAt>>

\* time passes up to the horizon explored
Tick == now < MaxTime /\ Advance

\* the TAK server goes away: connects fail and an open socket is dead
ServerDown ==
    /\ serverUp
    /\ serverUp' = FALSE
    /\ sockOk' = FALSE
    /\ UNCHANGED <<pipeVars, extVars, takHist, now, connected, ready, tak_stop, message_queue,
                   messages_sent, messages_dropped, pending_detections,
                   last_send_time, last_batch_send_time, batch_lock,
                   detection_batch, pcTimer, timerWake, pcSender, message,
                   pcDisc, submitted, acceptedAt>>

\* the TAK server is reachable again (a socket opened earlier stays dead)
ServerBack ==
    /\ ~serverUp
    /\ serverUp' = TRUE
    /\ UNCHANGED <<pipeVars, extVars, takHist, now, sockOk, connected, ready, tak_stop,
                   message_queue, messages_sent, messages_dropped,
                   pending_detections, last_send_time, last_batch_send_time,
                   batch_lock, detection_batch, pcTimer, timerWake, pcSender,
                   message, pcDisc, submitted, acceptedAt>>

\* --- connect() -------------------------------------------------------------
\* the value connect() returns: TRUE when already connected or when the
\* server accepts the new TLS connection
ConnectResult == connected \/ serverUp

\* --- send_detection() ------------------------------------------------------
AppendPendingKeepOldest(p, det) ==
    LET q == Append(p, det)
    IN  IF Len(q) > MaxPending THEN Slice(q, 1, MaxPending) ELSE q
\* the pending list after appending a detection and trimming to the last 20
AppendPending(p, det) ==
    LET q == Append(p, det)
    IN  IF Len(q) > MaxPending THEN Slice(q, Len(q) - MaxPending + 1, Len(q)) ELSE q

\* the entry send_detection appends for a detection with track_id "track":
\* a fresh dict, told apart from every other entry by the number of the call
PendingEntry(track) == <<track, submitted + 1>>

\* the track_id of the detection of a pending entry (NoTrack: it has none)
TrackOf(item) == item[1]

SendDetectionCallAlways(track) ==
    /\ batch_lock = "free"
    /\ pending_detections' = AppendPending(pending_detections, PendingEntry(track))
    /\ trimmed' = trimmed + (Len(pending_detections) + 1 - Len(pending_detections'))
    /\ submitted' = submitted + 1
    /\ send_result' = "True"
\* send_detection(detection, frame_num): returns False and changes nothing
\* while the dispatcher is not ready; otherwise appends under batch_lock,
\* trims the list to its last 20 entries and returns True
SendDetectionCall(track) ==
    IF ~ready
      THEN /\ send_result' = "False"
           /\ UNCHANGED <<pending_detections, submitted, trimmed>>
      ELSE /\ batch_lock = "free"
           /\ pending_detections' = AppendPending(pending_detections, PendingEntry(track))
           /\ trimmed' = trimmed + (Len(pending_detections) + 1 - Len(pending_detections'))
           /\ submitted' = submitted + 1
           /\ send_result' = "True"

\* the output stage forwards an enriched detection to the dispatcher, whatever
\* the state of the dispatcher
SubmitAnyTime ==
    /\ submitted < MaxSubmissions
    /\ \E det \in Detections : SendDetectionCall(det)
    /\ UNCHANGED <<pipeVars, extVars, final_batch, now, serverUp, sockOk, connected, ready, tak_stop,
                   message_queue, messages_sent, messages_dropped, last_send_time,
                   last_batch_send_time, batch_lock, detection_batch, pcTimer,
                   timerWake, pcSender, message, pcDisc, acceptedAt>>

\* the calls of the output stage that the dispatcher takes in (a call made
\* while it is not ready changes nothing but the value returned)
SendDetection == ready /\ SubmitAnyTime

\* --- _send_detection_batch() -----------------------------------------------
TakQueueFullNever(q) == FALSE
\* message_queue.put_nowait raises queue.Full: the queue holds maxsize messages
TakQueueFull(q) == Len(q) >= TakQueueMaxSize

RateLimitedNever(track, t) == FALSE
\* "time_since_last < self.update_interval" for a detection with a track_id
RateLimited(track, t) == track # NoTrack /\ t - last_send_time[track] < UpdateInterval

\* "self.last_send_time[track_id] = time.time()" and the clean-up of entries
\* older than 60 s once the map holds more than 1000 entries
RecordSend(m, track, t) ==
    LET m1 == [m EXCEPT ![track] = t]
    IN  IF Cardinality({k \in DOMAIN m1 : m1[k] # 0}) > MaxRateEntries
          THEN [k \in DOMAIN m1 |-> IF m1[k] > t - PruneAge THEN m1[k] ELSE 0]
          ELSE m1

\* one pass of "for item in detection_batch": the rate limit, then
\* build_cot_message and message_queue.put_nowait (queue.Full counts a drop)
BatchItem ==
    /\ batch_lock # "free"
    /\ detection_batch # <<>>
    /\ LET item == Head(detection_batch)
           track == TrackOf(item)
       IN  /\ detection_batch' = Tail(detection_batch)
           /\ IF RateLimited(track, now)
                THEN UNCHANGED <<last_send_time, message_queue, messages_dropped,
                                 acceptedAt>>
                ELSE /\ last_send_time' = IF track # NoTrack
                                            THEN RecordSend(last_send_time, track, now)
                                            ELSE last_send_time
                     /\ IF ~TakQueueFull(message_queue)
                          THEN /\ message_queue' = Append(message_queue, item)
                               /\ acceptedAt' = IF track # NoTrack
                                     THEN [acceptedAt EXCEPT ![track] = Append(@, now)]
                                     ELSE acceptedAt
                               /\ UNCHANGED messages_dropped
                          ELSE /\ messages_dropped' = messages_dropped + 1
                               /\ UNCHANGED <<message_queue, acceptedAt>>
    /\ UNCHANGED <<pipeVars, extVars, takHist, now, serverUp, sockOk, connected, ready, tak_stop,
                   messages_sent, pending_detections, last_batch_send_time,
                   batch_lock, pcTimer, timerWake, pcSender, message, pcDisc,
                   submitted>>

\* --- _batch_timer_worker() -------------------------------------------------
\* "while not self.stop_event.is_set(): if self.stop_event.wait(5.0): break"
TimerWait ==
    /\ pcTimer = "wait"
    /\ tak_stop \/ now >= timerWake
    /\ pcTimer' = IF tak_stop THEN "done" ELSE "tick"
    /\ timerWake' = 0
    /\ UNCHANGED <<pipeVars, extVars, takHist, now, serverUp, sockOk, connected, ready, tak_stop,
                   message_queue, messages_sent, messages_dropped,
                   pending_detections, last_send_time, last_batch_send_time,
                   batch_lock, detection_batch, pcSender, message,
                   pcDisc, submitted, acceptedAt>>

\* "self.pending_detections[:self.max_detections_per_batch]"
BatchOf(p) == Slice(p, 1, MaxDetectionsPerBatch)

AfterBatchKeepsAll(p) == p
\* "self.pending_detections[self.max_detections_per_batch:]"
AfterBatch(p) == Slice(p, MaxDetectionsPerBatch + 1, Len(p))

\* "with self.batch_lock:" up to the call of _send_detection_batch
TimerTick ==
    /\ pcTimer = "tick"
    /\ batch_lock = "free"
    /\ IF pending_detections # <<>> /\ now - last_batch_send_time >= BatchWindow
         THEN /\ detection_batch' = BatchOf(pending_detections)
              /\ pending_detections' = AfterBatch(pending_detections)
              /\ last_batch_send_time' = now
              /\ batch_lock' = "timer"
              /\ pcTimer' = "batch"
              /\ UNCHANGED timerWake
         ELSE /\ pcTimer' = "wait"
              /\ timerWake' = now + BatchWindow
              /\ UNCHANGED <<detection_batch, pending_detections,
                             last_batch_send_time, batch_lock>>
    /\ UNCHANGED <<pipeVars, extVars, takHist, now, serverUp, sockOk, connected, ready, tak_stop,
                   message_queue, messages_sent, messages_dropped, last_send_time,
                   pcSender, message, pcDisc, submitted, acceptedAt>>

\* _send_detection_batch returned: the lock is released, the next wait begins
TimerBatchDone ==
    /\ pcTimer = "batch"
    /\ detection_batch = <<>>
    /\ batch_lock' = "free"
    /\ pcTimer' = "wait"
    /\ timerWake' = now + BatchWindow
    /\ UNCHANGED <<pipeVars, extVars, takHist, now, serverUp, sockOk, connected, ready, tak_stop,
                   message_queue, messages_sent, messages_dropped,
                   pending_detections, last_send_time, last_batch_send_time,
                   detection_batch, pcSender, message, pcDisc, submitted,
                   acceptedAt>>


\* --- _sender_worker() ------------------------------------------------------
\* the effect of connect() on the connection: nothing when already connected,
\* a fresh TLS socket when the server accepts, connected = False otherwise
Connect ==
    IF connected
      THEN UNCHANGED <<connected, sockOk>>
      ELSE /\ connected' = serverUp
           /\ sockOk' = IF serverUp THEN TRUE ELSE sockOk

\* the initial "if not self.connect(): ... else: self.ready = True"
SenderConnect ==
    /\ pcSender = "connect"
    /\ Connect
    /\ ready' = IF ConnectResult THEN TRUE ELSE ready
    /\ pcSender' = "loop"
    /\ UNCHANGED <<pipeVars, extVars, takHist, now, serverUp, tak_stop, message_queue,
                   messages_sent, messages_dropped, pending_detections,
                   last_send_time, last_batch_send_time, batch_lock,
                   detection_batch, pcTimer, timerWake, message, pcDisc,
                   submitted, acceptedAt>>

\* "while not self.stop_event.is_set():"
SenderLoop ==
    /\ pcSender = "loop"
    /\ pcSender' = IF tak_stop THEN "done" ELSE "get"
    /\ UNCHANGED <<pipeVars, extVars, takHist, now, serverUp, sockOk, connected, ready, tak_stop,
                   message_queue, messages_sent, messages_dropped,
                   pending_detections, last_send_time, last_batch_send_time,
                   batch_lock, detection_batch, pcTimer, timerWake, message,
                   pcDisc, submitted, acceptedAt>>

\* "message = self.message_queue.get(timeout=1.0)"; queue.Empty -> continue
SenderGet ==
    /\ pcSender = "get"
    /\ IF message_queue # <<>>
         THEN /\ message' = <<Head(message_queue)>>
              /\ message_queue' = Tail(message_queue)
              /\ pcSender' = "ensure"
         ELSE /\ pcSender' = "loop"
              /\ UNCHANGED <<message, message_queue>>
    /\ UNCHANGED <<pipeVars, extVars, takHist, now, serverUp, sockOk, connected, ready, tak_stop,
                   messages_sent, messages_dropped, pending_detections,
                   last_send_time, last_batch_send_time, batch_lock,
                   detection_batch, pcTimer, timerWake, pcDisc, submitted,
                   acceptedAt>>

\* "if not self.connected:" reconnect; a failed reconnect drops the message
SenderEnsure ==
    /\ pcSender = "ensure"
    /\ IF ~connected
         THEN /\ Connect
              /\ IF ConnectResult
                   THEN /\ ready' = TRUE
                        /\ pcSender' = "send"
                        /\ UNCHANGED <<messages_dropped, message>>
                   ELSE /\ messages_dropped' = messages_dropped + 1
                        /\ message' = <<>>
                        /\ pcSender' = "loop"
                        /\ UNCHANGED ready
         ELSE /\ pcSender' = "send"
              /\ UNCHANGED <<connected, sockOk, ready, messages_dropped, message>>
    /\ UNCHANGED <<pipeVars, extVars, takHist, now, serverUp, tak_stop, message_queue,
                   messages_sent, pending_detections, last_send_time,
                   last_batch_send_time, batch_lock, detection_batch, pcTimer,
                   timerWake, pcDisc, submitted, acceptedAt>>

SendFailedRequeue ==
    /\ connected' = FALSE
    /\ ready' = FALSE
    /\ message_queue' = Append(message_queue, message[1])
    /\ UNCHANGED <<messages_sent, messages_dropped>>
\* "except Exception as send_error:" of the send
SendFailed ==
    /\ connected' = FALSE
    /\ ready' = FALSE
    /\ messages_dropped' = messages_dropped + 1
    /\ UNCHANGED <<messages_sent, message_queue>>

\* "with self.lock: self.ssl_socket.send(...); self.messages_sent += 1" and
\* its except clause
SenderSend ==
    /\ pcSender = "send"
    /\ IF sockOk
         THEN /\ messages_sent' = messages_sent + 1
              /\ UNCHANGED <<connected, ready, messages_dropped, message_queue>>
         ELSE SendFailed
    /\ message' = <<>>
    /\ pcSender' = "loop"
    /\ UNCHANGED <<pipeVars, extVars, takHist, now, serverUp, sockOk, tak_stop, pending_detections,
                   last_send_time, last_batch_send_time, batch_lock,
                   detection_batch, pcTimer, timerWake, pcDisc, submitted,
                   acceptedAt>>

\* --- disconnect() ----------------------------------------------------------
\* "with self.batch_lock: if self.pending_detections:" the final batch begins
DiscFlush ==
    /\ pcDisc = "idle"
    /\ batch_lock = "free"
    /\ IF pending_detections # <<>>
         THEN /\ detection_batch' = pending_detections
              /\ final_batch' = pending_detections
              /\ batch_lock' = "disconnect"
              /\ pcDisc' = "flush"
         ELSE /\ pcDisc' = "stop"
              /\ UNCHANGED <<detection_batch, batch_lock, final_batch>>
    /\ UNCHANGED <<pipeVars, extVars, trimmed, send_result, now, serverUp, sockOk, connected, ready, tak_stop,
                   message_queue, messages_sent, messages_dropped,
                   pending_detections, last_send_time, last_batch_send_time,
                   pcTimer, timerWake, pcSender, message, submitted, acceptedAt>>

\* the final batch returned: "self.pending_detections = []", lock released
DiscFlushDone ==
    /\ pcDisc = "flush"
    /\ detection_batch = <<>>
    /\ pending_detections' = <<>>
    /\ batch_lock' = "free"
    /\ pcDisc' = "stop"
    /\ UNCHANGED <<pipeVars, extVars, takHist, now, serverUp, sockOk, connected, ready, tak_stop,
                   message_queue, messages_sent, messages_dropped, last_send_time,
                   last_batch_send_time, detection_batch, pcTimer, timerWake,
                   pcSender, message, submitted, acceptedAt>>

\* "self.stop_event.set()"
DiscStop ==
    /\ pcDisc = "stop"
    /\ tak_stop' = TRUE
    /\ pcDisc' = "close"
    /\ UNCHANGED <<pipeVars, extVars, takHist, now, serverUp, sockOk, connected, ready,
                   message_queue, messages_sent, messages_dropped,
                   pending_detections, last_send_time, last_batch_send_time,
                   batch_lock, detection_batch, pcTimer, timerWake, pcSender,
                   message, submitted, acceptedAt>>

\* the two "join(timeout=2.0)" return (the thread has ended or the timeout ran
\* out, whichever comes first); then "with self.lock:" the socket is closed
\* and connected = False
DiscClose ==
    /\ pcDisc = "close"
    /\ sockOk' = FALSE
    /\ connected' = FALSE
    /\ pcDisc' = "done"
    /\ UNCHANGED <<pipeVars, extVars, takHist, now, serverUp, ready, tak_stop, message_queue,
                   messages_sent, messages_dropped, pending_detections,
                   last_send_time, last_batch_send_time, batch_lock,
                   detection_batch, pcTimer, timerWake, pcSender, message,
                   submitted, acceptedAt>>

SenderStep == SenderConnect \/ SenderLoop \/ SenderGet \/ SenderEnsure \/ SenderSend
TimerStep == TimerWait \/ TimerTick \/ TimerBatchDone

\* --- submissions while the dispatcher may not be ready ----------------------
\* time passes up to the first pass of the batch timer
UnreadyTick == now < Epoch + UnreadySeconds /\ Advance

UnreadyNext ==
    \/ UnreadyTick \/ ServerDown \/ ServerBack
    \/ SubmitAnyTime
    \/ BatchItem
    \/ TimerWait \/ TimerTick \/ TimerBatchDone
    \/ SenderConnect \/ SenderLoop \/ SenderGet \/ SenderEnsure \/ SenderSend

\* --- a burst of submissions -------------------------------------------------
\* the output stage forwards the detections of its frames at any pace
BurstSubmit ==
    /\ submitted < MaxBurst
    /\ \E det \in Detections : SendDetectionCall(det)
    /\ UNCHANGED <<pipeVars, extVars, final_batch, now, serverUp, sockOk, connected,
                   ready, tak_stop, message_queue, messages_sent, messages_dropped,
                   last_send_time, last_batch_send_time, batch_lock, detection_batch,
                   pcTimer, timerWake, pcSender, message, pcDisc, acceptedAt>>

BurstNext ==
    \/ Tick
    \/ BurstSubmit
    \/ BatchItem
    \/ TimerWait \/ TimerTick \/ TimerBatchDone
    \/ SenderConnect \/ SenderLoop \/ SenderGet \/ SenderEnsure \/ SenderSend

\* --- a stream of submissions at the rate the batch timer is built for ------
\* the output stage submits one detection without a track_id (the rate limit
\* suppresses none of them) in each second, the n-th in second n after
\* construction: 5 items per 5 s, never more
PacedSubmit ==
    /\ ready
    /\ submitted = now - Epoch - 1
    /\ SendDetectionCall(NoTrack)
    /\ UNCHANGED <<pipeVars, extVars, final_batch, now, serverUp, sockOk, connected,
                   ready, tak_stop, message_queue, messages_sent, messages_dropped,
                   last_send_time, last_batch_send_time, batch_lock, detection_batch,
                   pcTimer, timerWake, pcSender, message, pcDisc, acceptedAt>>

\* a second passes once this second's detection was submitted; the threads
\* are prompt: the sender has emptied the queue, the batch timer is in its
\* wait and has not overslept by MaxLateness
PacedTick ==
    /\ now < Epoch + PacedSeconds
    /\ submitted >= now - Epoch
    /\ pcSender \in {"loop", "get"} /\ message_queue = <<>>
    /\ pcTimer = "wait" /\ now < timerWake + MaxLateness
    /\ Advance

PacedNext ==
    \/ PacedTick
    \/ PacedSubmit
    \/ BatchItem
    \/ TimerWait \/ TimerTick \/ TimerBatchDone
    \/ SenderConnect \/ SenderLoop \/ SenderGet \/ SenderEnsure \/ SenderSend

\* --- the same stream while the server has stopped reading ------------------
\* a second passes once this second's detection was submitted; the batch
\* timer wakes up on time
BacklogTick ==
    /\ now < Epoch + BacklogSeconds
    /\ submitted >= now - Epoch
    /\ pcTimer = "wait" /\ now < timerWake
    /\ Advance

\* the TAK server keeps the connection open but reads nothing from it:
\* ssl_socket.send blocks, the sender thread stays in its first send, and
\* the messages the batches enqueue pile up
BacklogNext ==
    \/ BacklogTick
    \/ PacedSubmit
    \/ BatchItem
    \/ TimerWait \/ TimerTick \/ TimerBatchDone
    \/ SenderConnect \/ SenderLoop \/ SenderGet \/ SenderEnsure

NextTak ==
    \/ Tick \/ ServerDown \/ ServerBack
    \/ SendDetection
    \/ BatchItem
    \/ TimerWait \/ TimerTick \/ TimerBatchDone
    \/ SenderConnect \/ SenderLoop \/ SenderGet \/ SenderEnsure \/ SenderSend
    \/ DiscFlush \/ DiscFlushDone \/ DiscStop \/ DiscClose

\* ---------------------------------------------------------------------------
\* Part III: TAKCoTSender.build_cot_message, the UID of a message
\* ---------------------------------------------------------------------------
\* class names, each as the pieces a "-" separates
ClassNames == {<<"car">>, <<"fire", "truck">>}
\* track ids of the detections rendered; NoTrack: detection.get('track_id') is None
CotTracks == {NoTrack, 7, 8}
\* frame numbers passed to build_cot_message
CotFrames == {1, 2}
\* values of str(uuid.uuid4())[:8]
UuidPrefixes == {"1b9d6bcd", "6ec0bd7f"}

\* a detection as build_cot_message reads it, with the frame_num argument and
\* the uuid4 the call would draw
CotInputs ==
    [class_name : ClassNames, track_id : CotTracks, has_geo : BOOLEAN,
     frame_num : CotFrames, uuid : UuidPrefixes]

BuildUidPerFrame(d) == <<"YOLO">> \o d.class_name \o <<d.frame_num, d.uuid>>
\* the uid of the f-strings, as the list of its "-"-separated pieces
BuildUid(d) ==
    IF d.track_id # NoTrack
      THEN <<"YOLO">> \o d.class_name \o <<d.track_id>>
      ELSE <<"YOLO">> \o d.class_name \o <<d.frame_num, d.uuid>>

\* build_cot_message was not called yet
Unbuilt == <<>>
\* build_cot_message returned None
NoMessage == <<"None">>

\* the uid attribute of the message build_cot_message returns; NoMessage when
\* it returns None for want of geo-coordinates
CotUid(d) == IF ~d.has_geo THEN NoMessage ELSE BuildUid(d)

InitCot ==
    /\ det_a \in CotInputs
    /\ det_b \in CotInputs
    /\ uid_a = Unbuilt
    /\ uid_b = Unbuilt

\* no message was built yet and none will be: the two detections are fixed
CotAtRest ==
    /\ det_a = [class_name |-> <<"car">>, track_id |-> NoTrack, has_geo |-> FALSE,
                frame_num |-> 1, uuid |-> "1b9d6bcd"]
    /\ det_b = det_a
    /\ uid_a = Unbuilt
    /\ uid_b = Unbuilt

\* build_cot_message(det_a, frame_num)
BuildCotA ==
    /\ uid_a = Unbuilt
    /\ uid_a' = CotUid(det_a)
    /\ UNCHANGED <<pipeVars, takVars, sseVars, runVars, laterVars, det_a, det_b, uid_b>>

\* build_cot_message(det_b, frame_num)
BuildCotB ==
    /\ uid_b = Unbuilt
    /\ uid_b' = CotUid(det_b)
    /\ UNCHANGED <<pipeVars, takVars, sseVars, runVars, laterVars, det_a, det_b, uid_a>>

NextCot == BuildCotA \/ BuildCotB

\* ---------------------------------------------------------------------------
\* Part IV: SSEBroadcaster and the /events handlers (src/src/modules/sse.py)
\* ---------------------------------------------------------------------------
\* Bounds of the broadcaster model
\* number of events the output stage publishes
NumEvents == 1003
\* subscribers connect until this many events were published
JoinWindow == 1

\* queue.Queue(maxsize=1000) of subscribe()
SseQueueMaxSize == 1000

\* the HTTP clients that may connect to /events
SubIds == {1, 2}
\* a client reads the stream, or keeps the connection but stops reading (the
\* handler's write blocks), or has closed the connection (the write raises)
ClientKinds == {"reading", "stalled", "gone"}

\* the elements of a list
Members(seq) == {seq[i] : i \in 1..Len(seq)}

InitSse ==
    /\ subscribers = <<>>
    /\ sse_queue = [s \in SubIds |-> <<>>]
    /\ pcHandler = [s \in SubIds |-> "idle"]
    /\ handler_data = [s \in SubIds |-> 0]
    /\ client \in [SubIds -> ClientKinds]
    /\ published = 0
    /\ sse_stop = FALSE

\* a broadcaster nobody connects to
SseAtRest == InitSse /\ client = [s \in SubIds |-> "gone"]

SseQueueFullNever(q) == FALSE
\* q.put_nowait(data) raises queue.Full: the queue holds maxsize events
SseQueueFull(q) == Len(q) >= SseQueueMaxSize

\* unsubscribe(q): "if q in self._subscribers: self._subscribers.remove(q)"
Unsubscribed(subs, s) == SelectSeq(subs, LAMBDA x : x # s)

\* the subscriber list publish() leaves: the queues whose put_nowait raised
\* are collected in "dead" and removed
WithoutDead(subs, queues) == SelectSeq(subs, LAMBDA x : ~SseQueueFull(queues[x]))

\* publish(data): under the lock, one put_nowait per subscriber queue, then
\* the removal of the queues that raised
PublishCall ==
    /\ published' = published + 1
    /\ sse_queue' = [s \in SubIds |->
                       IF s \in Members(subscribers) /\ ~SseQueueFull(sse_queue[s])
                         THEN Append(sse_queue[s], published + 1)
                         ELSE sse_queue[s]]
    /\ subscribers' = WithoutDead(subscribers, sse_queue)

\* the handler of s has done what it can do with the events published so
\* far: it has emptied its queue and written the events, or it is held up
\* in the write to a client that does not read
Prompt(s) ==
    \/ pcHandler[s] \in {"idle", "done"}
    \/ pcHandler[s] \in {"loop", "get"} /\ sse_queue[s] = <<>>
    \/ pcHandler[s] = "write" /\ client[s] = "stalled"

\* the output stage publishes the metadata of a frame; it does so at the
\* frame rate, by which time the handler threads are prompt
Publish ==
    /\ published < NumEvents
    /\ ~sse_stop
    /\ \A s \in SubIds : Prompt(s)
    /\ PublishCall
    /\ UNCHANGED <<pipeVars, takVars, cotVars, runVars, laterVars, pcHandler, handler_data, client,
                   sse_stop>>

\* do_GET for /events: the response headers, subscribe(), the first write
Subscribe(s) ==
    /\ pcHandler[s] = "idle"
    /\ ~sse_stop
    /\ published <= JoinWindow
    /\ subscribers' = Append(subscribers, s)
    /\ sse_queue' = [sse_queue EXCEPT ![s] = <<>>]
    /\ pcHandler' = [pcHandler EXCEPT ![s] = "loop"]
    /\ UNCHANGED <<pipeVars, takVars, cotVars, runVars, laterVars, handler_data, client, published,
                   sse_stop>>

\* "while not stop_event.is_set():", and the finally clause when it is set
HandlerLoop(s) ==
    /\ pcHandler[s] = "loop"
    /\ IF sse_stop
         THEN /\ subscribers' = Unsubscribed(subscribers, s)
              /\ pcHandler' = [pcHandler EXCEPT ![s] = "done"]
         ELSE /\ pcHandler' = [pcHandler EXCEPT ![s] = "get"]
              /\ UNCHANGED subscribers
    /\ UNCHANGED <<pipeVars, takVars, cotVars, runVars, laterVars, sse_queue, handler_data, client,
                   published, sse_stop>>

\* "data = q.get(timeout=0.5)"; on the timeout: continue
HandlerGet(s) ==
    /\ pcHandler[s] = "get"
    /\ IF sse_queue[s] # <<>>
         THEN /\ handler_data' = [handler_data EXCEPT ![s] = Head(sse_queue[s])]
              /\ sse_queue' = [sse_queue EXCEPT ![s] = Tail(sse_queue[s])]
              /\ pcHandler' = [pcHandler EXCEPT ![s] = "write"]
         ELSE /\ pcHandler' = [pcHandler EXCEPT ![s] = "loop"]
              /\ UNCHANGED <<handler_data, sse_queue>>
    /\ UNCHANGED <<pipeVars, takVars, cotVars, runVars, laterVars, subscribers, client, published,
                   sse_stop>>

\* "self.wfile.write(payload); self.wfile.flush()": returns when the client
\* reads, blocks while it does not, raises when it is gone (then the finally
\* clause unsubscribes and the handler ends)
HandlerWrite(s) ==
    /\ pcHandler[s] = "write"
    /\ client[s] # "stalled"
    /\ handler_data' = [handler_data EXCEPT ![s] = 0]
    /\ IF client[s] = "reading"
         THEN /\ pcHandler' = [pcHandler EXCEPT ![s] = "loop"]
              /\ UNCHANGED subscribers
         ELSE /\ subscribers' = Unsubscribed(subscribers, s)
              /\ pcHandler' = [pcHandler EXCEPT ![s] = "done"]
    /\ UNCHANGED <<pipeVars, takVars, cotVars, runVars, laterVars, sse_queue, client, published,
                   sse_stop>>

\* the owner of the stop event sets it at shutdown, after the last publish
SseStop ==
    /\ ~sse_stop
    /\ sse_stop' = TRUE
    /\ UNCHANGED <<pipeVars, takVars, cotVars, runVars, laterVars, subscribers, sse_queue, pcHandler,
                   handler_data, client, published>>

NextSse ==
    \/ Publish
    \/ SseStop
    \/ \E s \in SubIds : Subscribe(s)
    \/ \E s \in SubIds : HandlerLoop(s)
    \/ \E s \in SubIds : HandlerGet(s)
    \/ \E s \in SubIds : HandlerWrite(s)

\* ---------------------------------------------------------------------------
\* Part V: BasePipeline.run and _reconnect_stream (src/detector_legacy.py)
\* ---------------------------------------------------------------------------
\* _reconnect_stream(self, max_retries=5, retry_delay=3)
MaxRetries == 5
RetryDelay == 3
\* max_consecutive_errors = 5
MaxConsecutiveErrors == 5
\* "if attempt >= 2": the attempts from this one on skip the stream test
SkipTestFrom == 2

\* packets the input delivers at most
MaxPackets == 2
\* reconnections explored
MaxReconnects == 2

\* what _open_srt_container and the look at container.streams can find:
\* av.open raises; no video stream; a video stream whose width or height is
\* not yet positive; a video stream with positive width and height
OpenOutcomes == {"error", "no_video", "not_ready", "ready"}
\* av.error.OSError, av.error.TimeoutError
ErrorKinds == {"stream", "timeout"}

BackoffWaitLinear(k) == RetryDelay * (k + 1)
\* wait_time = retry_delay * (2 ** attempt)
BackoffWait(k) == RetryDelay * (2 ^ k)

\* the attempt returns True: a video stream was found, and either the stream
\* test is skipped or its width and height are positive
AttemptSucceeds(k, outcome) ==
    \/ outcome = "ready"
    \/ outcome = "not_ready" /\ k >= SkipTestFrom

\* KLVDecoder.decode returns None, an empty record or a record with fields;
\* a record is the sequence of its field names
NoRecord == <<"None">>
EmptyRecord == <<>>
KlvResults == {NoRecord, EmptyRecord, <<"latitude", "longitude">>}

\* "if klv_data:" / "if decoded:": None and the empty dict are false
Truthy(result) == result # NoRecord /\ result # EmptyRecord

StoreKlvAlways(slot, result) == result
\* "if klv_data: self.latest_klv = klv_data"
StoreKlv(slot, result) == IF Truthy(result) THEN result ELSE slot

\* video packets: packet.is_keyframe is set or not
VideoKinds == {"key", "nonkey"}

PassedToDecoderAlways(seen, kind) == TRUE
\* "if not seen_keyframe: if is_keyframe: seen_keyframe = True else: continue":
\* the packet reaches packet.decode()
PassedToDecoder(seen, kind) == seen \/ kind = "key"

\* the entry of packet_log for a video packet
LogEntry(seen, kind) ==
    IF PassedToDecoder(seen, kind) THEN <<kind, "decode">> ELSE <<kind, "skip">>

Reopened == <<"reopen", "reopen">>

\* the log after self.container was opened anew
LogReopen(log) ==
    IF log # <<>> /\ log[Len(log)] = Reopened THEN log ELSE Append(log, Reopened)

\* run() after start() succeeded: the transport is open, the counter is zero
InitRun ==
    /\ pcRun = "loop"
    /\ consecutive_errors = 0
    /\ attempt = 0
    /\ container_open = TRUE
    /\ run_stop = FALSE
    /\ reconnect_result = "none"
    /\ last_open = "none"
    /\ waits = <<>>
    /\ errors_in_a_row = 0
    /\ last_backoff = "none"
    /\ packets_demuxed = 0
    /\ reconnections = 0
    /\ seen_keyframe = FALSE
    /\ latest_klv = NoRecord
    /\ packet_log = <<>>
    /\ last_klv_result = NoRecord
    /\ klv_seen = FALSE

RunAtRest == InitRun

\* while not self._stop_event.is_set(): ... container.demux(...)
RunLoop ==
    /\ pcRun = "loop"
    /\ pcRun' = IF run_stop THEN "exit" ELSE "demux"
    /\ UNCHANGED <<pipeVars, takVars, cotVars, sseVars, laterVars, packetVars, consecutive_errors, attempt,
                   container_open, run_stop, reconnect_result, last_open, waits,
                   errors_in_a_row, last_backoff, packets_demuxed, reconnections>>

\* a data packet: decode it and keep the record when it is not empty
DataPacket(result) ==
    /\ last_klv_result' = result
    /\ latest_klv' = StoreKlv(latest_klv, result)
    /\ klv_seen' = (klv_seen \/ Truthy(result))
    /\ UNCHANGED <<seen_keyframe, packet_log>>

\* a video packet: wait for the first keyframe, then decode every packet
VideoPacket(kind) ==
    /\ packet_log' = Append(packet_log, LogEntry(seen_keyframe, kind))
    /\ seen_keyframe' = (seen_keyframe \/ kind = "key")
    /\ UNCHANGED <<latest_klv, last_klv_result, klv_seen>>

\* the demux generator yields a packet and the loop body handles it; the
\* body does not touch consecutive_errors
DemuxPacket ==
    /\ pcRun = "demux"
    /\ container_open
    /\ packets_demuxed < MaxPackets
    /\ packets_demuxed' = packets_demuxed + 1
    /\ errors_in_a_row' = 0
    /\ \/ \E result \in KlvResults : DataPacket(result)
       \/ \E kind \in VideoKinds : VideoPacket(kind)
    /\ UNCHANGED <<pipeVars, takVars, cotVars, sseVars, laterVars, pcRun, consecutive_errors,
                   attempt, container_open, run_stop, reconnect_result, last_open,
                   waits, last_backoff, reconnections>>

\* the demux generator ends: "break" out of the outer loop
DemuxEnd ==
    /\ pcRun = "demux"
    /\ container_open
    /\ pcRun' = "exit"
    /\ UNCHANGED <<pipeVars, takVars, cotVars, sseVars, laterVars, packetVars, consecutive_errors, attempt,
                   container_open, run_stop, reconnect_result, last_open, waits,
                   errors_in_a_row, last_backoff, packets_demuxed, reconnections>>

\* except (av.error.OSError, av.error.TimeoutError): count the error; at the
\* threshold call _reconnect_stream, below it sleep and continue
DemuxError(kind) ==
    /\ pcRun = "demux"
    /\ consecutive_errors' = consecutive_errors + 1
    /\ errors_in_a_row' = errors_in_a_row + 1
    /\ IF consecutive_errors' >= MaxConsecutiveErrors
         THEN /\ reconnections < MaxReconnects
              /\ pcRun' = "rc_close"
              /\ attempt' = 0
              /\ waits' = <<>>
              /\ reconnect_result' = "none"
              /\ last_open' = "none"
              /\ reconnections' = reconnections + 1
              /\ UNCHANGED last_backoff
         ELSE /\ pcRun' = "backoff"
              /\ last_backoff' = kind
              /\ UNCHANGED <<attempt, waits, reconnect_result, last_open,
                             reconnections>>
    /\ UNCHANGED <<pipeVars, takVars, cotVars, sseVars, laterVars, packetVars, container_open, run_stop,
                   packets_demuxed>>

\* time.sleep(wait_time); continue
Backoff ==
    /\ pcRun = "backoff"
    /\ pcRun' = "loop"
    /\ UNCHANGED <<pipeVars, takVars, cotVars, sseVars, laterVars, packetVars, consecutive_errors, attempt,
                   container_open, run_stop, reconnect_result, last_open, waits,
                   errors_in_a_row, last_backoff, packets_demuxed, reconnections>>

\* the head of "for attempt in range(max_retries)": when the range is
\* exhausted _reconnect_stream returns False and run() breaks out of its
\* loop; otherwise the attempt closes the container and sleeps
ReconnectClose ==
    /\ pcRun = "rc_close"
    /\ IF attempt >= MaxRetries
         THEN /\ reconnect_result' = "False"
              /\ pcRun' = "exit"
              /\ UNCHANGED <<container_open, waits>>
         ELSE /\ container_open' = FALSE
              /\ waits' = Append(waits, BackoffWait(attempt))
              /\ pcRun' = "rc_open"
              /\ UNCHANGED reconnect_result
    /\ UNCHANGED <<pipeVars, takVars, cotVars, sseVars, laterVars, packetVars, consecutive_errors, attempt,
                   run_stop, last_open, errors_in_a_row, last_backoff,
                   packets_demuxed, reconnections>>

\* _open_srt_container(), the look for a video stream and the stream test;
\* on True run() resets its counter and goes back to the head of its loop
ReconnectOpen(outcome) ==
    /\ pcRun = "rc_open"
    /\ last_open' = outcome
    /\ container_open' = (outcome # "error")
    /\ packet_log' = IF outcome # "error" THEN LogReopen(packet_log) ELSE packet_log
    /\ IF AttemptSucceeds(attempt, outcome)
         THEN /\ reconnect_result' = "True"
              /\ consecutive_errors' = 0
              /\ errors_in_a_row' = 0
              /\ seen_keyframe' = FALSE
              /\ pcRun' = "loop"
              /\ UNCHANGED attempt
         ELSE /\ attempt' = attempt + 1
              /\ pcRun' = "rc_close"
              /\ UNCHANGED <<reconnect_result, consecutive_errors, errors_in_a_row,
                             seen_keyframe>>
    /\ UNCHANGED <<latest_klv, last_klv_result, klv_seen>>
    /\ UNCHANGED <<pipeVars, takVars, cotVars, sseVars, laterVars, run_stop, waits,
                   last_backoff, packets_demuxed, reconnections>>

\* KeyboardInterrupt, or any other exception, anywhere in the loop
Interrupt ==
    /\ pcRun \in {"loop", "demux", "backoff", "rc_close", "rc_open"}
    /\ pcRun' = "exit"
    /\ UNCHANGED <<pipeVars, takVars, cotVars, sseVars, laterVars, packetVars, consecutive_errors, attempt,
                   container_open, run_stop, reconnect_result, last_open, waits,
                   errors_in_a_row, last_backoff, packets_demuxed, reconnections>>

\* finally: self.stop() sets the stop event and closes the container
RunFinally ==
    /\ pcRun = "exit"
    /\ run_stop' = TRUE
    /\ container_open' = FALSE
    /\ pcRun' = "stopped"
    /\ UNCHANGED <<pipeVars, takVars, cotVars, sseVars, laterVars, packetVars, consecutive_errors, attempt,
                   reconnect_result, last_open, waits, errors_in_a_row,
                   last_backoff, packets_demuxed, reconnections>>

NextRun ==
    \/ RunLoop
    \/ DemuxPacket
    \/ DemuxEnd
    \/ \E kind \in ErrorKinds : DemuxError(kind)
    \/ Backoff
    \/ ReconnectClose
    \/ \E outcome \in OpenOutcomes : ReconnectOpen(outcome)
    \/ Interrupt
    \/ RunFinally

\* ---------------------------------------------------------------------------
\* Part VI: ThreadedPipeline._capture_thread when the stream fails
\* ---------------------------------------------------------------------------
InitCapErr ==
    /\ capture_error = FALSE
    /\ cap_latest_klv = EmptyRecord
    /\ cap_klv_result = NoRecord
    /\ cap_klv_seen = FALSE

CapErrAtRest == InitCapErr

\* container.demux() raises a stream error (av.error.OSError, TimeoutError):
\* the exception leaves the for loop, "except Exception" logs it, and the
\* finally clause sets the stop event and ends the thread
CapStreamError ==
    /\ pcCap = "demux"
    /\ packets_left > 0
    /\ capture_error' = TRUE
    /\ CaptureExit
    /\ UNCHANGED <<cap_latest_klv, cap_klv_result, cap_klv_seen>>
    /\ UNCHANGED <<takVars, cotVars, sseVars, runVars, klvVars, tailVars, batch_output, skip_frames,
                   inference_queue, output_queue, frame_count, packets_left, pcInf,
                   infFrame, pcOut, pcMain, infSeen, outSeen, discarded>>

\* a data packet in the capture thread: "decoded = self.klv_decoder.decode(data);
\* if decoded: self.latest_klv = decoded"
CapDataPacket(result) ==
    /\ pcCap = "demux"
    /\ ~stop_event
    /\ cap_klv_result' = result
    /\ cap_latest_klv' = StoreKlv(cap_latest_klv, result)
    /\ cap_klv_seen' = (cap_klv_seen \/ Truthy(result))
    /\ UNCHANGED <<pipeVars, takVars, cotVars, sseVars, runVars, klvVars, tailVars,
                   capture_error>>

NextCaptureError ==
    \/ NextPipeline
    \/ CapStreamError

\* the packets of both demux loops, the capture thread's and the legacy run
\* loop's, with nothing else of the two pipelines running
NextKlvSlot ==
    \/ \E result \in KlvResults : CapDataPacket(result)
    \/ CapDemux \/ CapFullCheck \/ CapGetNowait \/ CapPut
    \/ RunLoop
    \/ DemuxPacket

\* ---------------------------------------------------------------------------
\* Part VII: KLVDecoder.decode (src/src/modules/klv.py)
\* ---------------------------------------------------------------------------
\* MISB_0601_KEY
MisbKey == <<6, 14, 43, 52, 2, 11, 1, 1, 14, 1, 3, 1, 1, 0, 0, 0>>

\* data[offset], offsets counted from 0 as in the code
ByteAt(data, offset) == data[offset + 1]

\* data[from:to] with 0 <= from <= to <= len(data)
ByteSlice(data, from, to) == [i \in 1..(to - from) |-> data[from + i]]

\* data.startswith(MISB_0601_KEY)
StartsWithKey(data) ==
    /\ Len(data) >= Len(MisbKey)
    /\ \A i \in 1..Len(MisbKey) : data[i] = MisbKey[i]

\* the dict a decode call builds: field name -> value
EmptyTelemetry == [f \in {} |-> 0]

\* "return None", and "return telemetry"
NotApplicable == [applicable |-> FALSE, telemetry |-> EmptyTelemetry]
Record(telemetry) == [applicable |-> TRUE, telemetry |-> telemetry]

\* telemetry[field] = value
SetField(telemetry, field, value) ==
    [f \in (DOMAIN telemetry) \cup {field} |->
        IF f = field THEN value ELSE telemetry[f]]

\* the if/elif chain on the tag: field name, byte width, struct format and
\* divisor of every tag the decoder knows ("Q" unsigned 8 bytes, "h" signed
\* 2, "H" unsigned 2, "i" signed 4, "f" float 4)
TagTable ==
    [t \in {2, 5, 6, 7, 13, 14, 15, 18, 19, 21, 22, 23, 102, 103, 104, 105, 106, 107} |->
       CASE t = 2   -> [field |-> "timestamp_us",     width |-> 8, fmt |-> "Q", scale |-> 1]
         [] t = 5   -> [field |-> "roll",             width |-> 2, fmt |-> "h", scale |-> 100]
         [] t = 6   -> [field |-> "pitch",            width |-> 2, fmt |-> "h", scale |-> 100]
         [] t = 7   -> [field |-> "heading",          width |-> 2, fmt |-> "H", scale |-> 100]
         [] t = 13  -> [field |-> "latitude",         width |-> 4, fmt |-> "i", scale |-> 10000000]
         [] t = 14  -> [field |-> "longitude",        width |-> 4, fmt |-> "i", scale |-> 10000000]
         [] t = 15  -> [field |-> "altitude",         width |-> 2, fmt |-> "H", scale |-> 10]
         [] t = 18  -> [field |-> "sensor_h_fov",     width |-> 2, fmt |-> "H", scale |-> 100]
         [] t = 19  -> [field |-> "sensor_v_fov",     width |-> 2, fmt |-> "H", scale |-> 100]
         [] t = 21  -> [field |-> "gimbal_roll_rel",  width |-> 4, fmt |-> "i", scale |-> 1000000]
         [] t = 22  -> [field |-> "gimbal_pitch_rel", width |-> 4, fmt |-> "i", scale |-> 1000000]
         [] t = 23  -> [field |-> "gimbal_yaw_rel",   width |-> 4, fmt |-> "i", scale |-> 1000000]
         [] t = 102 -> [field |-> "sensor_width_mm",  width |-> 4, fmt |-> "f", scale |-> 1]
         [] t = 103 -> [field |-> "sensor_height_mm", width |-> 4, fmt |-> "f", scale |-> 1]
         [] t = 104 -> [field |-> "focal_length_mm",  width |-> 4, fmt |-> "f", scale |-> 1]
         [] t = 105 -> [field |-> "gimbal_yaw_abs",   width |-> 4, fmt |-> "i", scale |-> 1000000]
         [] t = 106 -> [field |-> "gimbal_pitch_abs", width |-> 4, fmt |-> "i", scale |-> 1000000]
         [] t = 107 -> [field |-> "gimbal_roll_abs",  width |-> 4, fmt |-> "i", scale |-> 1000000]]

UnsignedLittleEndian(bytes) ==
    LET upTo[i \in 0..Len(bytes)] ==
           IF i = 0 THEN 0 ELSE upTo[i - 1] * 256 + bytes[Len(bytes) - i + 1]
    IN  upTo[Len(bytes)]
\* struct.unpack of a big-endian unsigned integer of up to 3 bytes
RECURSIVE UnsignedBE(_)
UnsignedBE(bytes) ==
    IF bytes = <<>> THEN 0
    ELSE UnsignedBE(SubSeq(bytes, 1, Len(bytes) - 1)) * 256 + bytes[Len(bytes)]

SignedBEAsUnsigned(bytes) == UnsignedBE(bytes)
\* struct.unpack of a big-endian two's complement integer ('>h', '>i'): the
\* first byte carries the sign
SignedBE(bytes) ==
    LET first == IF bytes[1] >= 128 THEN bytes[1] - 256 ELSE bytes[1]
        rest == Tail(bytes)
    IN  first * (256 ^ Len(rest)) + UnsignedBE(rest)

\* struct.unpack('>Q'): an unsigned integer of 8 bytes, written here in base
\* 65536 (most significant digit first)
UnsignedBE64(bytes) ==
    [d \in 1..4 |-> bytes[2 * d - 1] * 256 + bytes[2 * d]]

\* struct.unpack(fmt, value_bytes)[0]; a float32 is kept as its four bytes
Unpack(fmt, bytes) ==
    CASE fmt = "Q" -> UnsignedBE64(bytes)
      [] fmt = "h" -> SignedBE(bytes)
      [] fmt = "i" -> SignedBE(bytes)
      [] fmt = "H" -> UnsignedBE(bytes)
      [] fmt = "f" -> bytes

\* the value stored for a field: the unpacked number over the divisor
\* ("scaled / 100.0" is [num |-> scaled, den |-> 100])
FieldValue(entry, bytes) == [num |-> Unpack(entry.fmt, bytes), den |-> entry.scale]

WidthMatchesOrOneByte(item_length, width) == item_length = width \/ item_length = 1
\* "if item_length == 8:", "== 2", "== 4"
WidthMatches(item_length, width) == item_length = width

\* the body of the loop after the item was cut out: a known tag with its
\* width sets its field, anything else leaves the dict as it is
StoreItem(telemetry, tag, item_length, value_bytes) ==
    IF tag \in DOMAIN TagTable /\ WidthMatches(item_length, TagTable[tag].width)
      THEN SetField(telemetry, TagTable[tag].field,
                    FieldValue(TagTable[tag], value_bytes))
      ELSE telemetry

OnTruncationDiscard(telemetry) == EmptyTelemetry
\* "break" out of the loop on a cut item: the dict built so far is returned
OnTruncation(telemetry) == telemetry

\* one pass through the body of the while loop, from the offset of a tag:
\* the two "break"s leave the loop with the dict built so far, otherwise the
\* item is cut out, stored, and the offset moves behind it
LoopBody(data, loop) ==
    LET tag == ByteAt(data, loop.offset)
        len_offset == loop.offset + 1
    IN  IF len_offset >= Len(data)
          THEN [offset |-> len_offset, telemetry |-> OnTruncation(loop.telemetry),
                broken |-> TRUE]
          ELSE LET item_length == ByteAt(data, len_offset)
                   value_offset == len_offset + 1
               IN  IF value_offset + item_length > Len(data)
                     THEN [offset |-> value_offset,
                           telemetry |-> OnTruncation(loop.telemetry),
                           broken |-> TRUE]
                     ELSE [offset |-> value_offset + item_length,
                           telemetry |-> StoreItem(loop.telemetry, tag, item_length,
                                                   ByteSlice(data, value_offset,
                                                             value_offset + item_length)),
                           broken |-> FALSE]

\* the loop is over: a break, or its condition is false
LoopOver(data, end_offset, loop) ==
    loop.broken \/ ~(loop.offset < end_offset /\ loop.offset < Len(data))

\* one iteration of the loop, if there is one left
Iteration(data, end_offset, loop) ==
    IF LoopOver(data, end_offset, loop) THEN loop ELSE LoopBody(data, loop)

\* four, then sixteen iterations (so that the loop over a packet of 65535
\* bytes does not nest deeper than the evaluator's stack)
Iterations4(data, end_offset, loop) ==
    Iteration(data, end_offset, Iteration(data, end_offset,
        Iteration(data, end_offset, Iteration(data, end_offset, loop))))
Iterations16(data, end_offset, loop) ==
    Iterations4(data, end_offset, Iterations4(data, end_offset,
        Iterations4(data, end_offset, Iterations4(data, end_offset, loop))))

\* "while offset < end_offset and offset < len(data):"
RECURSIVE WhileLoop(_, _, _)
WhileLoop(data, end_offset, loop) ==
    IF LoopOver(data, end_offset, loop)
      THEN loop.telemetry
      ELSE WhileLoop(data, end_offset, Iterations16(data, end_offset, loop))

\* the loop entered at offset with an empty dict
ParseItems(data, offset, end_offset, telemetry) ==
    WhileLoop(data, end_offset,
              [offset |-> offset, telemetry |-> telemetry, broken |-> FALSE])

\* "if length_byte < 128:"
ShortForm(length_byte) == length_byte < 128

TwoByteLengthLittleEndian(hi, lo) == lo * 256 + hi
\* struct.unpack('>H', data[offset:offset+2])[0]
TwoByteLength(hi, lo) == hi * 256 + lo

\* KLVDecoder.decode(data). An IndexError (no length byte, no byte after
\* 0x81) and a struct.error (fewer than two bytes after 0x82) are caught by
\* the outer "except Exception" and give None.
Decode(data) ==
    IF ~StartsWithKey(data) THEN NotApplicable
    ELSE IF Len(data) <= 16 THEN NotApplicable
    ELSE LET length_byte == ByteAt(data, 16)
         IN  IF ShortForm(length_byte)
               THEN Record(ParseItems(data, 17, 17 + length_byte, EmptyTelemetry))
             ELSE IF length_byte = 129
               THEN IF Len(data) <= 17 THEN NotApplicable
                    ELSE Record(ParseItems(data, 18, 18 + ByteAt(data, 17),
                                           EmptyTelemetry))
             ELSE IF length_byte = 130
               THEN IF Len(data) < 19 THEN NotApplicable
                    ELSE Record(ParseItems(data, 19,
                                           19 + TwoByteLength(ByteAt(data, 17),
                                                              ByteAt(data, 18)),
                                           EmptyTelemetry))
             ELSE NotApplicable

\* --- the blobs decode is applied to -----------------------------------------
\* items per packet in the family of short item sequences
MaxItems == 2
\* bytes cut off the end of a packet
MaxCut == 3

\* one local-set item: tag byte, length byte, value bytes
ItemBytes(item) == <<item.tag, Len(item.value)>> \o item.value

RECURSIVE ItemsBytes(_)
ItemsBytes(items) ==
    IF items = <<>> THEN <<>> ELSE ItemBytes(Head(items)) \o ItemsBytes(Tail(items))

\* n bytes (n = 0 or n >= 2) of items with the unknown tag 1 and zero
\* values: items of 256 bytes, and a last item of 2 to 257 bytes
Filler(n) ==
    LET full == IF n < 2 THEN 0 ELSE (n - 2) \div 256
        last == n - 256 * full
    IN  [i \in 1..n |->
            IF i <= 256 * full
              THEN CASE (i - 1) % 256 = 0 -> 1
                     [] (i - 1) % 256 = 1 -> 254
                     [] OTHER -> 0
              ELSE CASE i - 256 * full = 1 -> 1
                     [] i - 256 * full = 2 -> last - 2
                     [] OTHER -> 0]

\* the BER length field in the form asked for; the last four forms are
\* first bytes the decoder has no branch for
LengthField(form, n) ==
    CASE form = "short" -> <<n>>
      [] form = "x81"   -> <<129, n>>
      [] form = "x82"   -> <<130, n \div 256, n % 256>>
      [] form = "x80"   -> <<128, n % 256>>
      [] form = "x83"   -> <<131, 0, n \div 256, n % 256>>
      [] form = "x84"   -> <<132, 0, 0, n \div 256, n % 256>>
      [] form = "xFF"   -> <<255, n % 256>>

AcceptedForms == {"short", "x81", "x82"}
RejectedForms == {"x80", "x83", "x84", "xFF"}

\* the label of a packet: the key, the key with one byte changed, or only
\* the first bytes of the key
LabelBytes(kind, pos) ==
    CASE kind = "ok"   -> MisbKey
      [] kind = "flip" -> [MisbKey EXCEPT ![pos] = (@ + 1) % 256]
      [] kind = "cut"  -> SubSeq(MisbKey, 1, pos)

\* the bytes at the end of the items that the length field of an "overrun"
\* case does not count
Undeclared(c) == IF c.family = "overrun" THEN c.pos ELSE 0

\* the bytes of a case: label, length field of the payload (filler and items),
\* payload, items after the declared end, and the whole cut short
CaseBytes(c) ==
    LET payload == Filler(c.filler) \o ItemsBytes(c.items)
        whole == IF c.label = "cut" THEN LabelBytes(c.label, c.pos)
                 ELSE LabelBytes(c.label, c.pos)
                      \o LengthField(c.form, Len(payload) - Undeclared(c))
                      \o payload \o ItemsBytes(c.trailing)
        keep == IF c.cut >= Len(whole) THEN 0 ELSE Len(whole) - c.cut
    IN  SubSeq(whole, 1, keep)

Case(family, label, pos, form, filler, items, trailing, cut) ==
    [family |-> family, label |-> label, pos |-> pos, form |-> form,
     filler |-> filler, items |-> items, trailing |-> trailing, cut |-> cut]

\* value bytes of a given width: all zero, all 0xFF, the largest and the
\* smallest two's complement number, and bytes that all differ
Patterns == {"zeros", "ones", "max", "min", "mixed"}
MixedBytes == <<18, 52, 86, 120, 154, 188, 222, 241, 35>>
PatternBytes(pattern, width) ==
    [i \in 1..width |->
        CASE pattern = "zeros" -> 0
          [] pattern = "ones"  -> 255
          [] pattern = "max"   -> IF i = 1 THEN 127 ELSE 255
          [] pattern = "min"   -> IF i = 1 THEN 128 ELSE 0
          [] pattern = "mixed" -> MixedBytes[i]]

KnownTags == DOMAIN TagTable
UnknownTags == {1, 3, 100, 255}

Item(tag, value) == [tag |-> tag, value |-> value]

\* every known tag at its width with every pattern
WellFormedItems ==
    {Item(t, PatternBytes(pat, TagTable[t].width)) : t \in KnownTags, pat \in Patterns}
\* every known tag one byte short, one byte long and empty
WrongWidthItems ==
    UNION {{Item(t, PatternBytes("mixed", w)) :
               w \in {0, TagTable[t].width - 1, TagTable[t].width + 1}} :
           t \in KnownTags}
UnknownItems == {Item(t, PatternBytes("mixed", w)) : t \in UnknownTags, w \in {0, 2, 4}}

AllItems == WellFormedItems \cup WrongWidthItems \cup UnknownItems

\* a few items of every kind, for the sequences
SmallItems ==
    {Item(15, <<4, 210>>), Item(13, <<23, 234, 80, 134>>), Item(7, <<140, 160>>),
     Item(15, <<4, 210, 9>>), Item(13, <<23, 234>>), Item(3, <<1, 2>>), Item(15, <<>>)}

SeqsUpTo(S, n) == UNION {[1..k -> S] : k \in 0..n}

\* boundary lengths of the value region
FramingLengths == {4, 127, 128, 255, 256, 65535}
FormsFor(n) ==
    (IF n < 128 THEN {"short"} ELSE {}) \cup (IF n < 256 THEN {"x81"} ELSE {}) \cup {"x82"}

\* framing: a value region of n bytes ending in an altitude item, followed
\* by a heading item outside the declared length
FramingCases ==
    {Case("framing", "ok", 0, form, n - 4, <<Item(15, <<4, 210>>)>>,
          <<Item(7, <<140, 160>>)>>, 0) :
        n \in FramingLengths, form \in AcceptedForms}
\* a first length byte the decoder rejects
RejectedCases ==
    {Case("rejected", "ok", 0, form, 0, items, <<>>, 0) :
        form \in RejectedForms, items \in SeqsUpTo(SmallItems, 1)}
\* a wrong or incomplete label
LabelCases ==
    {Case("label", "flip", pos, "short", 0, items, <<>>, 0) :
        pos \in 1..16, items \in SeqsUpTo(SmallItems, 1)}
    \cup {Case("label", "cut", pos, "short", 0, <<>>, <<>>, 0) : pos \in 0..15}
\* short sequences of items in every accepted framing, cut short or not
SequenceCases ==
    {Case("sequence", "ok", 0, form, 0, items, <<>>, cut) :
        form \in AcceptedForms, items \in SeqsUpTo(SmallItems, MaxItems),
        cut \in 0..MaxCut}
\* every item between two items of a few kinds
ContextCases ==
    {Case("context", "ok", 0, "short", 0, pre \o <<item>> \o post, <<>>, 0) :
        pre \in SeqsUpTo(SmallItems, 1), item \in AllItems,
        post \in SeqsUpTo(SmallItems, 1)}

\* items whose last one to MaxCut bytes lie behind the end the length field
\* declares, with or without a further item behind them
OverrunCases ==
    {c \in {Case("overrun", "ok", pos, "short", 0, items, trailing, 0) :
                items \in SeqsUpTo(SmallItems, MaxItems) \ {<<>>},
                pos \in 1..MaxCut,
                trailing \in {<<>>, <<Item(7, <<140, 160>>)>>}} :
        c.pos <= Len(ItemsBytes(c.items))}

\* --- packets encoded from a record ----------------------------------------
\* fields per record
MaxFields == 2

\* the tags in the order their items are written
TagOrder == <<2, 5, 6, 7, 13, 14, 15, 18, 19, 21, 22, 23, 105, 106, 107>>

\* the tags whose value is a scaled integer
ScaledTags == {t \in KnownTags : TagTable[t].fmt # "f"}
ScaledFields == {TagTable[t].field : t \in ScaledTags}
TagOfField(field) == CHOOSE t \in ScaledTags : TagTable[t].field = field

\* raw integers of a field: the bounds of its format and values in between
\* (an 8-byte integer in base 65536)
RawSamples(fmt) ==
    CASE fmt = "Q" -> <<<<0, 0, 0, 0>>, <<0, 6, 4660, 22136>>,
                        <<65535, 65535, 65535, 65535>>>>
      [] fmt = "h" -> <<-32768, -1, 32767>>
      [] fmt = "H" -> <<0, 1234, 65535>>
      [] fmt = "i" -> <<-2147483647 - 1, -749876543, 2147483647>>

\* records of at most MaxFields scaled fields with raw values
RoundTripRecords ==
    UNION {{[f \in F |-> RawSamples(TagTable[TagOfField(f)].fmt)[k[f]]] :
               k \in [F -> 1..3]} :
           F \in {G \in SUBSET ScaledFields : Cardinality(G) <= MaxFields}}

\* latitude 40.1234567, longitude -74.9876543, altitude 123.4
ExampleRecord ==
    [f \in {"latitude", "longitude", "altitude"} |->
        CASE f = "latitude" -> 401234567
          [] f = "longitude" -> -749876543
          [] f = "altitude" -> 1234]

\* struct.pack of a raw integer at a width: big-endian, two's complement
PackInteger(raw, width) == [i \in 1..width |-> (raw \div (256 ^ (width - i))) % 256]
PackInteger64(digits) ==
    [i \in 1..8 |-> IF i % 2 = 1 THEN digits[(i + 1) \div 2] \div 256
                    ELSE digits[i \div 2] % 256]

\* the items of a record, one per field, at the declared width
EncodeField(record, t) ==
    Item(t, IF TagTable[t].fmt = "Q" THEN PackInteger64(record[TagTable[t].field])
            ELSE PackInteger(record[TagTable[t].field], TagTable[t].width))

RECURSIVE EncodeTags(_, _)
EncodeTags(record, tags) ==
    IF tags = <<>> THEN <<>>
    ELSE IF TagTable[Head(tags)].field \in DOMAIN record
      THEN <<EncodeField(record, Head(tags))>> \o EncodeTags(record, Tail(tags))
      ELSE EncodeTags(record, Tail(tags))

EncodeRecord(record) == EncodeTags(record, TagOrder)

RoundTripCase(record, form) ==
    Case("roundtrip", "ok", 0, form, 0, EncodeRecord(record), <<>>, 0)

KlvCases ==
    {c \in FramingCases : c.form \in FormsFor(c.filler + 4)}
    \cup RejectedCases \cup LabelCases \cup SequenceCases \cup ContextCases
    \cup OverrunCases

InitKlv ==
    /\ \/ /\ klv_case \in KlvCases
          /\ klv_record = EmptyTelemetry
       \/ /\ klv_record \in RoundTripRecords \cup {ExampleRecord}
          /\ \E form \in AcceptedForms : klv_case = RoundTripCase(klv_record, form)
    /\ klv_data = CaseBytes(klv_case)
    /\ klv_done = FALSE
    /\ klv_result = NotApplicable

KlvAtRest ==
    /\ klv_case = Case("label", "cut", 0, "short", 0, <<>>, <<>>, 0)
    /\ klv_record = EmptyTelemetry
    /\ klv_data = <<>>
    /\ klv_done = FALSE
    /\ klv_result = NotApplicable

\* one call of KLVDecoder.decode(data)
KlvDecode ==
    /\ ~klv_done
    /\ klv_result' = Decode(klv_data)
    /\ klv_done' = TRUE
    /\ UNCHANGED <<pipeVars, takVars, cotVars, sseVars, runVars, capErrVars, tailVars,
                   klv_case, klv_record, klv_data>>

NextKlv == KlvDecode

\* ---------------------------------------------------------------------------
\* Part VIII: calculate_object_coordinates (src/src/modules/geo.py)
\* ---------------------------------------------------------------------------
\* An angle is an integer number of thousandths of a degree. A value of the
\* telemetry dict is the tuple <<v>>, and None is <<>>. A quantity the function
\* derives is the exact fraction num/den with den > 0, in lowest terms.
\* math.radians and math.degrees cancel in every angle the function derives
\* from a field of view, so those angles are kept in degrees throughout.
Deg(d) == d * 1000

NoneValue == <<>>

Num(v) == <<v>>

RECURSIVE Gcd(_, _)
Gcd(a, b) == IF b = 0 THEN a ELSE Gcd(b, a % b)

Magnitude(n) == IF n < 0 THEN -n ELSE n

Rat(n, d) ==
    LET g == Gcd(Magnitude(n), d)
    IN  [num |-> n \div g, den |-> d \div g]

RatAdd(a, b) == Rat(a.num * b.den + b.num * a.den, a.den * b.den)

RatMul(a, b) == Rat(a.num * b.num, a.den * b.den)

\* a / n for a positive integer n
RatOver(a, n) == Rat(a.num, a.den * n)

\* a % n for a positive integer n, as Python's float % computes it: in [0, n)
RatMod(a, n) == Rat(a.num % (n * a.den), a.den)

RatAbs(a) == [num |-> Magnitude(a.num), den |-> a.den]

\* "return None"
NoResult == [unavailable |-> TRUE]

RequiredFields == {"latitude", "longitude", "altitude"}

\* "[f for f in required_fields if f not in klv_data or klv_data[f] is None]"
MissingFields(klv) ==
    {f \in RequiredFields : f \notin DOMAIN klv \/ klv[f] = NoneValue}

\* klv_data.get(field, default)
Get(klv, field, default) ==
    IF field \in DOMAIN klv THEN klv[field][1] ELSE default

\* the gimbal orientation in the world frame and the name of the method
GimbalWorld(klv) ==
    LET platform_roll == Get(klv, "roll", 0)
        platform_pitch == Get(klv, "pitch", 0)
        platform_heading == Get(klv, "heading", 0)
        has_absolute == "gimbal_yaw_abs" \in DOMAIN klv \/ "gimbal_pitch_abs" \in DOMAIN klv
        has_relative == "gimbal_yaw_rel" \in DOMAIN klv \/ "gimbal_pitch_rel" \in DOMAIN klv
    IN  IF has_absolute
        THEN [yaw |-> Get(klv, "gimbal_yaw_abs", 0),
              pitch |-> Get(klv, "gimbal_pitch_abs", Deg(-90)),
              roll |-> Get(klv, "gimbal_roll_abs", 0),
              method |-> "absolute_world_frame"]
        ELSE IF has_relative
        THEN [yaw |-> platform_heading + Get(klv, "gimbal_yaw_rel", 0),
              pitch |-> Get(klv, "gimbal_pitch_rel", Deg(-90)) + platform_pitch,
              roll |-> Get(klv, "gimbal_roll_rel", 0) + platform_roll,
              method |-> "relative_approx_transform"]
        ELSE [yaw |-> platform_heading,
              pitch |-> Deg(-90),
              roll |-> 0,
              method |-> "fallback_nadir"]

\* the centre of the box relative to the centre of the frame, in pixels
PixelOffset(bbox, frame_width, frame_height) ==
    [x |-> RatAdd(Rat(bbox[1] + bbox[3], 2), Rat(-frame_width, 2)),
     y |-> RatAdd(Rat(bbox[2] + bbox[4], 2), Rat(-frame_height, 2))]

\* math.degrees(math.atan(n / d)) to the nearest thousandth of a degree, for
\* the ratios the sensors of CameraParts give
ArcTan(n, d) ==
    CASE n = d -> 45000
      [] 3 * n = 2 * d -> 33690
      [] 2 * n = d -> 26565

\* klv_data.get(field) is truthy: present, and not zero
Nonzero(klv, field) == field \in DOMAIN klv /\ klv[field] # NoneValue /\ klv[field][1] # 0

HasSensor(klv) ==
    Nonzero(klv, "sensor_width_mm") /\ Nonzero(klv, "sensor_height_mm")
        /\ Nonzero(klv, "focal_length_mm")

HasFov(klv) == "sensor_h_fov" \in DOMAIN klv /\ "sensor_v_fov" \in DOMAIN klv

\* alpha_x and alpha_y in degrees, and has_camera_specs
AngularOffset(bbox, klv, frame_width, frame_height) ==
    LET pixel_offset == PixelOffset(bbox, frame_width, frame_height)
    IN  IF HasSensor(klv)
        THEN LET angle_per_pixel_x ==
                     Rat(2 * ArcTan(klv["sensor_width_mm"][1],
                                    2 * klv["focal_length_mm"][1]), frame_width)
                 angle_per_pixel_y ==
                     Rat(2 * ArcTan(klv["sensor_height_mm"][1],
                                    2 * klv["focal_length_mm"][1]), frame_height)
             IN  [x |-> RatMul(pixel_offset.x, angle_per_pixel_x),
                  y |-> RatMul(pixel_offset.y, angle_per_pixel_y),
                  has_camera_specs |-> TRUE]
        ELSE IF HasFov(klv)
        THEN [x |-> RatMul(RatOver(pixel_offset.x, frame_width),
                           Rat(klv["sensor_h_fov"][1], 1)),
              y |-> RatMul(RatOver(pixel_offset.y, frame_height),
                           Rat(klv["sensor_v_fov"][1], 1)),
              has_camera_specs |-> TRUE]
        ELSE LET h_fov == Rat(Deg(60), 1)
                 v_fov == RatMul(h_fov, Rat(frame_height, frame_width))
             IN  [x |-> RatMul(RatOver(pixel_offset.x, frame_width), h_fov),
                  y |-> RatMul(RatOver(pixel_offset.y, frame_height), v_fov),
                  has_camera_specs |-> FALSE]

\* "camera_elevation = gimbal_pitch_world + math.degrees(alpha_y)"
CameraElevation(bbox, klv, frame_width, frame_height) ==
    RatAdd(Rat(GimbalWorld(klv).pitch, 1),
           AngularOffset(bbox, klv, frame_width, frame_height).y)

\* "camera_azimuth = (gimbal_yaw_world + math.degrees(alpha_x)) % 360.0"
CameraAzimuth(bbox, klv, frame_width, frame_height) ==
    RatMod(RatAdd(Rat(GimbalWorld(klv).yaw, 1),
                  AngularOffset(bbox, klv, frame_width, frame_height).x), Deg(360))

\* "if camera_elevation >= 0"
AboveHorizon(camera_elevation) == camera_elevation.num >= 0

NearHorizontalInclusive(look_down_angle) == look_down_angle.num <= Deg(5) * look_down_angle.den

\* "if look_down_angle < 5"
NearHorizontal(look_down_angle) == look_down_angle.num < Deg(5) * look_down_angle.den

\* the sign of math.tan(math.radians(a)) for an angle a >= 0: positive up to
\* and at 90 degrees (where the float tangent is about 1.6e16), negative
\* beyond it up to and at 180 degrees (where it is about -1.2e-16)
TanSign(a) ==
    LET r == a.num % (Deg(180) * a.den)
    IN  IF a.num = 0 THEN 0
        ELSE IF r = 0 THEN -1
        ELSE IF r <= Deg(90) * a.den THEN 1 ELSE -1

\* math.tan(math.radians(a)) in thousandths, to the nearest thousandth, for the
\* whole angles of ScenarioCases; <<>> for every other angle
TanMilli(a) ==
    IF a.den # 1 THEN <<>>
    ELSE CASE a.num = Deg(30) -> <<577>>
           [] a.num = Deg(45) -> <<1000>>
           [] a.num = Deg(60) -> <<1732>>
           [] a.num = Deg(120) -> <<-1732>>
           [] a.num = Deg(135) -> <<-1000>>
           [] a.num = Deg(150) -> <<-577>>
           [] OTHER -> <<>>

IntSign(n) == IF n > 0 THEN 1 ELSE IF n < 0 THEN -1 ELSE 0

\* "horizontal_distance = platform_alt * math.tan(math.radians(look_down_angle))":
\* its operands, its sign, and its value in millimetres where TanMilli has one
GroundDistance(platform_alt, look_down_angle) ==
    [altitude |-> platform_alt,
     tan_of |-> look_down_angle,
     sign |-> IntSign(platform_alt) * TanSign(look_down_angle),
     millimetres |->
        IF TanMilli(look_down_angle) = <<>> THEN <<>>
        ELSE <<platform_alt * TanMilli(look_down_angle)[1]>>]

\* cos and sin of the azimuths 0, 90, 180 and 270 degrees; <<>> for the others
CosSin(camera_azimuth) ==
    IF camera_azimuth.den # 1 THEN <<>>
    ELSE CASE camera_azimuth.num = 0 -> <<1, 0>>
           [] camera_azimuth.num = Deg(90) -> <<0, 1>>
           [] camera_azimuth.num = Deg(180) -> <<-1, 0>>
           [] camera_azimuth.num = Deg(270) -> <<0, -1>>
           [] OTHER -> <<>>

\* displacement_north and displacement_east in millimetres, where the distance
\* and the direction have a value here
Displacement(distance, camera_azimuth) ==
    IF distance.millimetres = <<>> \/ CosSin(camera_azimuth) = <<>> THEN <<>>
    ELSE <<distance.millimetres[1] * CosSin(camera_azimuth)[1],
           distance.millimetres[1] * CosSin(camera_azimuth)[2]>>

\* The value the call returns. The target is the platform position displaced
\* by the distance along camera_azimuth (north / 111320 degrees of latitude,
\* east / (111320 cos(latitude)) degrees of longitude): the record keeps the
\* platform position and the displacement.
Calculate(bbox, klv, frame_width, frame_height) ==
    IF MissingFields(klv) # {} THEN NoResult
    ELSE
        LET camera_azimuth == CameraAzimuth(bbox, klv, frame_width, frame_height)
            camera_elevation == CameraElevation(bbox, klv, frame_width, frame_height)
            look_down_angle == RatAbs(camera_elevation)
        IN  IF AboveHorizon(camera_elevation) THEN NoResult
            ELSE IF NearHorizontal(look_down_angle) THEN NoResult
            ELSE [unavailable |-> FALSE,
                  platform |-> [latitude |-> klv["latitude"][1],
                                longitude |-> klv["longitude"][1]],
                  displacement_mm |->
                      Displacement(GroundDistance(klv["altitude"][1], look_down_angle),
                                   camera_azimuth),
                  estimated_ground_distance_m |->
                      GroundDistance(klv["altitude"][1], look_down_angle),
                  camera_azimuth_deg |-> camera_azimuth,
                  camera_elevation_deg |-> camera_elevation,
                  calculation_method |-> "photogrammetry",
                  gimbal_method |-> GimbalWorld(klv).method,
                  has_camera_specs |->
                      AngularOffset(bbox, klv, frame_width, frame_height).has_camera_specs]

\* ---- the arguments of the calls that are checked ----
\* the largest number of gimbal fields a record carries
MaxGimbalFields == 2
\* how far, in thousandths of a degree, the pitches around 0, 5 and -5 reach
MaxNear == 1

NoFields == [f \in {} |-> NoneValue]

\* the fields of both records, those of updates where they overlap
Merge(record, updates) ==
    [f \in DOMAIN record \cup DOMAIN updates |->
        IF f \in DOMAIN updates THEN updates[f] ELSE record[f]]

GeoCase(family, bbox, klv, size) ==
    [family |-> family, bbox |-> bbox, klv_data |-> klv,
     frame_width |-> size[1], frame_height |-> size[2]]

FrameSizes == {<<1920, 1080>>, <<640, 480>>}

CentredBox(size) ==
    <<size[1] \div 2 - 10, size[2] \div 2 - 10, size[1] \div 2 + 10, size[2] \div 2 + 10>>

BBoxes(size) ==
    {CentredBox(size), <<0, 0, 20, 20>>, <<size[1] - 20, size[2] - 20, size[1], size[2]>>}

\* the platform position of the calls: 40 N, 74 W, 100 m
Position ==
    [f \in RequiredFields |->
        IF f = "latitude" THEN Num(40000000)
        ELSE IF f = "longitude" THEN Num(-74000000) ELSE Num(100)]

\* each required field absent, None or given
RequiredParts ==
    {[f \in {g \in RequiredFields : how[g] # "absent"} |->
         IF how[f] = "none" THEN NoneValue ELSE Position[f]] :
     how \in [RequiredFields -> {"absent", "none", "value"}]}

\* no attitude, or roll 1, pitch -2, heading 20
PlatformParts ==
    {NoFields,
     [f \in {"roll", "pitch", "heading"} |->
        IF f = "roll" THEN Num(Deg(1))
        ELSE IF f = "pitch" THEN Num(Deg(-2)) ELSE Num(Deg(20))]}

GimbalFields ==
    {"gimbal_yaw_abs", "gimbal_pitch_abs", "gimbal_roll_abs",
     "gimbal_yaw_rel", "gimbal_pitch_rel", "gimbal_roll_rel"}

\* the gimbal fields S with the given pitch, yaw 350 (40 relative), roll 3
GimbalPart(S, pitch) ==
    [f \in S |->
        IF f \in {"gimbal_pitch_abs", "gimbal_pitch_rel"} THEN Num(pitch)
        ELSE IF f = "gimbal_yaw_abs" THEN Num(Deg(350))
        ELSE IF f = "gimbal_yaw_rel" THEN Num(Deg(40)) ELSE Num(Deg(3))]

\* no camera fields; both fields of view; a 36 x 24 mm sensor behind an 18 mm
\* lens; a focal length of zero next to both fields of view; one field of view
CameraParts ==
    {NoFields,
     [f \in {"sensor_h_fov", "sensor_v_fov"} |->
        IF f = "sensor_h_fov" THEN Num(Deg(60)) ELSE Num(33750)],
     [f \in {"sensor_width_mm", "sensor_height_mm", "focal_length_mm"} |->
        IF f = "sensor_width_mm" THEN Num(36)
        ELSE IF f = "sensor_height_mm" THEN Num(24) ELSE Num(18)],
     [f \in {"sensor_width_mm", "sensor_height_mm", "focal_length_mm",
             "sensor_h_fov", "sensor_v_fov"} |->
        IF f = "sensor_width_mm" THEN Num(36)
        ELSE IF f = "sensor_height_mm" THEN Num(24)
        ELSE IF f = "focal_length_mm" THEN Num(0)
        ELSE IF f = "sensor_h_fov" THEN Num(Deg(60)) ELSE Num(33750)],
     [f \in {"sensor_h_fov"} |-> Num(Deg(60))]}

\* pitches at and around the two thresholds, and well away from them
NearPitches ==
    UNION {{Deg(0) + d, Deg(-5) + d, Deg(5) + d} : d \in -MaxNear..MaxNear}
        \cup {Deg(-90), Deg(-30), Deg(10)}

\* the required fields in every combination, under three gimbals
RequiredCases ==
    {GeoCase("required", CentredBox(<<1920, 1080>>), Merge(required, gimbal), <<1920, 1080>>) :
     required \in RequiredParts,
     gimbal \in {NoFields, GimbalPart({"gimbal_pitch_abs"}, Deg(-90)),
                 GimbalPart({"gimbal_pitch_abs"}, Deg(10))}}

\* every choice of at most MaxGimbalFields gimbal fields
GimbalCases ==
    {GeoCase("gimbal", bbox, Merge(Merge(Position, platform), GimbalPart(S, pitch)),
             <<1920, 1080>>) :
     S \in {T \in SUBSET GimbalFields : Cardinality(T) <= MaxGimbalFields},
     pitch \in {Deg(-30), Deg(-60)},
     platform \in PlatformParts,
     bbox \in {CentredBox(<<1920, 1080>>), <<1900, 1060, 1920, 1080>>}}

\* the pitch at and around the thresholds, given as an absolute angle or as an
\* angle relative to a platform pitched by -2 degrees
ThresholdCases ==
    UNION {{GeoCase("threshold", bbox, Merge(Merge(Position, camera), gimbal), size) :
            bbox \in BBoxes(size), camera \in CameraParts,
            gimbal \in UNION {{GimbalPart({"gimbal_pitch_abs"}, pitch),
                               Merge([f \in {"pitch"} |-> Num(Deg(-2))],
                                     GimbalPart({"gimbal_pitch_rel"}, pitch + Deg(2)))} :
                              pitch \in NearPitches}} :
           size \in FrameSizes}

\* the scenarios of a platform at 100 m heading north, both fields of view
\* given, the box centred, the gimbal pitched at a whole angle and turned to a
\* cardinal direction
ScenarioCases ==
    {GeoCase("scenario", CentredBox(<<1920, 1080>>),
             Merge(Merge(Position, [f \in {"heading"} |-> Num(0)]),
                   [f \in {"gimbal_yaw_abs", "gimbal_pitch_abs", "sensor_h_fov", "sensor_v_fov"} |->
                       IF f = "gimbal_yaw_abs" THEN Num(yaw)
                       ELSE IF f = "gimbal_pitch_abs" THEN Num(pitch)
                       ELSE IF f = "sensor_h_fov" THEN Num(Deg(60)) ELSE Num(33750)]),
             <<1920, 1080>>) :
     yaw \in {0, Deg(90), Deg(180), Deg(270)},
     pitch \in {Deg(-30), Deg(-45), Deg(-60), Deg(-90), Deg(-120), Deg(-135), Deg(-150),
                Deg(10)}}

GeoCases == RequiredCases \cup GimbalCases \cup ThresholdCases \cup ScenarioCases

InitGeo ==
    /\ geo_case \in GeoCases
    /\ geo_done = FALSE
    /\ geo_result = NoResult

GeoAtRest ==
    /\ geo_case = GeoCase("required", CentredBox(<<1920, 1080>>), NoFields, <<1920, 1080>>)
    /\ geo_done = FALSE
    /\ geo_result = NoResult

\* one call of calculate_object_coordinates(bbox, klv_data, frame_width, frame_height)
GeoCalculate ==
    /\ ~geo_done
    /\ geo_result' = Calculate(geo_case.bbox, geo_case.klv_data,
                               geo_case.frame_width, geo_case.frame_height)
    /\ geo_done' = TRUE
    /\ UNCHANGED <<pipeVars, takVars, cotVars, sseVars, runVars, capErrVars, klvVars,
                   outVars, restVars, geo_case>>

NextGeo == GeoCalculate

\* ---------------------------------------------------------------------------
\* Part IX: ThreadedPipeline._output_thread, the handling of one frame
\* ---------------------------------------------------------------------------
\* the largest number of detections of a frame
MaxDetections == 2
\* the number of frames the inference thread delivers
MaxOutFrames == 2

\* what calculate_object_coordinates returns for a detection: a result or None
GeoOutcomes == {"coords", "none"}

\* what send_detection does: queues the detection (True), refuses it (False,
\* the dispatcher disabled or not ready), or raises; the dispatcher does the
\* same for every detection of one frame
TakOutcomes == {"queued", "refused", "raise"}

\* what sendto, publish and the writer calls do
CallOutcomes == {"ok", "raise"}

\* a frame: whether frame_data.klv_data is truthy, and for each detection, in
\* detector order, what the georeferencer makes of it
FrameContents ==
    UNION {[klv : BOOLEAN, detections : [1..n -> GeoOutcomes]] : n \in 0..MaxDetections}

\* which of tak_sender, metadata_socket, sse_broadcaster the pipeline has
OutputConfigs == [tak_sender : BOOLEAN, metadata_socket : BOOLEAN, sse_broadcaster : BOOLEAN]

AttachAlways(klv, outcome) == TRUE

\* "if frame_data.klv_data: coords = calculate_object_coordinates(...);
\* if coords: enriched['geo_coordinates'] = coords"
Attach(klv, outcome) == klv /\ outcome = "coords"

\* the detections send_detection is called for, were no call to raise
Forwardable(config, content) ==
    {i \in DOMAIN content.detections :
        config.tak_sender /\ Attach(content.klv, content.detections[i])}

\* the first detection whose send_detection call raises, 0 when none does
FirstRaise(config, content, tak) ==
    LET raising == {i \in Forwardable(config, content) : tak[i] = "raise"}
    IN  IF raising = {} THEN 0 ELSE CHOOSE i \in raising : \A j \in raising : i <= j

\* the enriched detection of detection i
Enriched(content, i) ==
    [detection |-> i, geo_coordinates |-> Attach(content.klv, content.detections[i])]

\* a call inside "try: ... except: pass"
Swallowing(present, outcome) ==
    IF ~present THEN "skipped" ELSE IF outcome = "raise" THEN "failed" ELSE "sent"

\* the frame nothing was done for
Unprocessed ==
    [frame |-> NoFrame, content |-> [klv |-> FALSE, detections |-> <<>>],
     tak_calls |-> <<>>, metadata |-> <<>>, written |-> FALSE, udp |-> "skipped",
     sse |-> "skipped", error |-> FALSE, after_fault |-> FALSE]

\* The body of the loop for one frame: steps 1 to 5 under "try", left at the
\* first exception that no inner "except: pass" catches (send_detection or a
\* writer call raising), which "except Exception" logs.
HandleFrame(frame, config, content, tak, writer, udp, sse) ==
    LET n == Len(content.detections)
        first == FirstRaise(config, content, tak)
        called == {i \in Forwardable(config, content) : first = 0 \/ i <= first}
        tak_calls == [k \in 1..Cardinality(called) |->
                         CHOOSE i \in called : Cardinality({j \in called : j < i}) = k - 1]
        enriched_detections == [i \in 1..n |-> Enriched(content, i)]
        metadata == [frame |-> frame, detections |-> enriched_detections,
                     detection_count |-> Len(enriched_detections)]
    IN  IF first # 0
        THEN [frame |-> frame, content |-> content, tak_calls |-> tak_calls,
              metadata |-> <<>>, written |-> FALSE, udp |-> "skipped", sse |-> "skipped",
              error |-> TRUE]
        ELSE IF writer = "raise"
        THEN [frame |-> frame, content |-> content, tak_calls |-> tak_calls,
              metadata |-> <<metadata>>, written |-> FALSE, udp |-> "skipped",
              sse |-> "skipped", error |-> TRUE]
        ELSE [frame |-> frame, content |-> content, tak_calls |-> tak_calls,
              metadata |-> <<metadata>>, written |-> TRUE,
              udp |-> Swallowing(config.metadata_socket, udp),
              sse |-> Swallowing(config.sse_broadcaster, sse),
              error |-> FALSE]

\* what was done for a frame, and whether a fault had happened before it
Logged(handled, after_fault) ==
    [frame |-> handled.frame, content |-> handled.content,
     tak_calls |-> handled.tak_calls, metadata |-> handled.metadata,
     written |-> handled.written, udp |-> handled.udp, sse |-> handled.sse,
     error |-> handled.error, after_fault |-> after_fault]

\* a send, a publish or a submission of the frame failed
Faulted(handled, tak) ==
    \/ handled.udp = "failed"
    \/ handled.sse = "failed"
    \/ \E k \in DOMAIN handled.tak_calls : tak[handled.tak_calls[k]] # "queued"

\* outcomes are chosen for the calls the pipeline makes; a call it does not
\* make has the outcome of a call that went well
OutcomesOfCallsMade(config, content, tak, writer, udp, sse) ==
    LET first == FirstRaise(config, content, tak)
    IN  /\ Forwardable(config, content) = {} =>
              \A i \in DOMAIN content.detections : tak[i] = "queued"
        /\ first # 0 => writer = "ok"
        /\ (first # 0 \/ writer = "raise" \/ ~config.metadata_socket) => udp = "ok"
        /\ (first # 0 \/ writer = "raise" \/ ~config.sse_broadcaster) => sse = "ok"

AfterErrorDone == "done"

\* "except Exception as e: logger.error(...)": the while loop goes on
AfterError == "loop"

InitOutput ==
    /\ out_config \in OutputConfigs
    /\ out_frame = NoFrame
    /\ out_last = Unprocessed
    /\ processed_count = 0
    /\ fault_before = FALSE
    /\ frames_put = 0

OutputAtRest ==
    /\ out_config = [tak_sender |-> FALSE, metadata_socket |-> FALSE, sse_broadcaster |-> FALSE]
    /\ out_frame = NoFrame
    /\ out_last = Unprocessed
    /\ processed_count = 0
    /\ fault_before = FALSE
    /\ frames_put = 0

\* the inference thread's "self.output_queue.put_nowait(frame_data)" with room
\* in the queue
FrameArrives ==
    /\ frames_put < MaxOutFrames
    /\ CanPut(output_queue)
    /\ frames_put' = frames_put + 1
    /\ output_queue' = Append(output_queue, frames_put + 1)
    /\ UNCHANGED <<beforeOutVars, batch_output, skip_frames, stop_event, inference_queue,
                   frame_count, packets_left, pcCap, capFrame, pcInf, infFrame, pcOut,
                   pcMain, infSeen, outSeen, discarded, out_config, out_frame, out_last,
                   processed_count, fault_before>>

\* "frame_data = self.output_queue.get(timeout=1.0)"; queue.Empty -> continue
OutTake ==
    /\ pcOut = "get"
    /\ IF output_queue # <<>>
         THEN /\ output_queue' = Tail(output_queue)
              /\ outSeen' = Append(outSeen, Head(output_queue))
              /\ out_frame' = Head(output_queue)
              /\ out_last' = Unprocessed
              /\ pcOut' = "handle"
         ELSE /\ pcOut' = "loop"
              /\ UNCHANGED <<output_queue, outSeen, out_frame, out_last>>
    /\ UNCHANGED <<beforeOutVars, batch_output, skip_frames, stop_event, inference_queue,
                   frame_count, packets_left, pcCap, capFrame, pcInf, infFrame,
                   pcMain, infSeen, discarded, out_config, processed_count,
                   fault_before, frames_put>>

\* the "try" block of the loop on the frame taken, and its "except Exception"
OutHandle(content, tak, writer, udp, sse) ==
    /\ pcOut = "handle"
    /\ OutcomesOfCallsMade(out_config, content, tak, writer, udp, sse)
    /\ LET handled == HandleFrame(out_frame, out_config, content, tak, writer, udp, sse)
       IN  /\ out_last' = Logged(handled, fault_before)
           /\ processed_count' = IF handled.error THEN processed_count
                                 ELSE processed_count + 1
           /\ fault_before' = (fault_before \/ Faulted(handled, tak))
           /\ pcOut' = IF handled.error THEN AfterError ELSE "loop"
    /\ out_frame' = NoFrame
    /\ UNCHANGED <<beforeOutVars, batch_output, skip_frames, stop_event, inference_queue,
                   output_queue, frame_count, packets_left, pcCap, capFrame, pcInf,
                   infFrame, pcMain, infSeen, outSeen, discarded, out_config, frames_put>>

\* the output thread with the frames of the inference thread; run() may end
\* the pipeline at any moment
NextOutput ==
    \/ FrameArrives
    \/ OutLoop
    \/ OutTake
    \/ \E content \in FrameContents, dispatcher \in TakOutcomes :
         \E writer \in CallOutcomes, udp \in CallOutcomes, sse \in CallOutcomes :
            OutHandle(content, [i \in DOMAIN content.detections |-> dispatcher],
                      writer, udp, sse)
    \/ MainStop

\* ---------------------------------------------------------------------------
\* Part X: TAKCoTSender statement by statement: which lock each access of the
\* shared state is made under, and the two steps of "messages_dropped += 1"
\* ---------------------------------------------------------------------------
\* Bounds
\* number of detections send_detection takes in during the scenario
MaxRaceSubmissions == 1
\* number of queued messages the sender thread takes after the one it holds
MaxRaceGets == 1

\* the three locks of the dispatcher
BatchLock == "batch_lock"
RateLimitLock == "rate_limit_lock"
ConnectionLock == "lock"

\* the threads that run dispatcher code; the thread inside
\* _send_detection_batch is the one that holds batch_lock
Threads == {"sender", "timer", "disconnect", "caller"}

\* one access: thread "by" reads or writes attribute "attr" while holding the
\* locks "under"
Access(by, attr, kind, under) == [by |-> by, attr |-> attr, kind |-> kind, under |-> under]

ReadWrite(by, attr, under) ==
    {Access(by, attr, "read", under), Access(by, attr, "write", under)}

\* a state BacklogSpec reaches:
\* the dispatcher after the server has stopped reading for so long that the
\* send queue is one short of full: the sender thread is inside the send of
\* the first message (holding self.lock), messages 2..1000 are queued, the
\* five detections of the last five seconds are pending and the batch timer
\* is about to wake up
StallSeconds == TakQueueMaxSize + BatchWindow

Stalled ==
    /\ now = Epoch + StallSeconds
    /\ serverUp = TRUE
    /\ sockOk = TRUE
    /\ connected = TRUE
    /\ ready = TRUE
    /\ tak_stop = FALSE
    /\ message = <<<<NoTrack, 1>>>>
    /\ message_queue = [i \in 1..(TakQueueMaxSize - 1) |-> <<NoTrack, i + 1>>]
    /\ messages_sent = 0
    /\ messages_dropped = 0
    /\ pending_detections =
          [i \in 1..BatchWindow |-> <<NoTrack, StallSeconds - BatchWindow + i>>]
    /\ last_send_time = [t \in TrackIds |-> 0]
    /\ last_batch_send_time = now - BatchWindow
    /\ batch_lock = "free"
    /\ detection_batch = <<>>
    /\ pcTimer = "wait"
    /\ timerWake = now
    /\ pcDisc = "idle"
    /\ submitted = StallSeconds
    /\ acceptedAt = [t \in TrackIds |-> <<>>]
    /\ trimmed = 0
    /\ send_result = "True"
    /\ final_batch = <<>>

InitRace ==
    /\ Stalled
    /\ pcSender = "sending"
    /\ lock = "sender"
    /\ pcItem = "rate"
    /\ dropped_read = [t \in Threads |-> <<>>]
    /\ attempts = TakQueueMaxSize
    /\ access = {}

RaceAtRest ==
    /\ lock = "free"
    /\ pcItem = "rate"
    /\ dropped_read = [t \in Threads |-> <<>>]
    /\ attempts = 0
    /\ access = {}

\* --- send_detection() ------------------------------------------------------
\* send_detection(detection): "if not self.ready: return False"; otherwise
\* "with self.batch_lock:" append, trim, return True
RaceSubmit ==
    /\ submitted < StallSeconds + MaxRaceSubmissions
    /\ \E det \in Detections : SendDetectionCall(det)
    /\ access' = IF ready
                   THEN ReadWrite("caller", "pending_detections", {BatchLock})
                   ELSE {}
    /\ UNCHANGED <<asideRaceVars, final_batch, now, serverUp, sockOk, connected, ready,
                   tak_stop, message_queue, messages_sent, messages_dropped,
                   last_send_time, last_batch_send_time, batch_lock, detection_batch,
                   pcTimer, timerWake, pcSender, message, pcDisc, acceptedAt,
                   lock, pcItem, dropped_read, attempts>>

\* --- _batch_timer_worker() -------------------------------------------------
\* "with self.batch_lock:" up to the call of _send_detection_batch
RaceTimerTick ==
    /\ pcTimer = "tick"
    /\ batch_lock = "free"
    /\ IF pending_detections # <<>> /\ now - last_batch_send_time >= BatchWindow
         THEN /\ detection_batch' = BatchOf(pending_detections)
              /\ pending_detections' = AfterBatch(pending_detections)
              /\ last_batch_send_time' = now
              /\ batch_lock' = "timer"
              /\ pcTimer' = "batch"
              /\ access' = ReadWrite("timer", "pending_detections", {BatchLock})
              /\ UNCHANGED timerWake
         ELSE /\ pcTimer' = "wait"
              /\ timerWake' = now + BatchWindow
              /\ access' = {Access("timer", "pending_detections", "read", {BatchLock})}
              /\ UNCHANGED <<detection_batch, pending_detections,
                             last_batch_send_time, batch_lock>>
    /\ UNCHANGED <<asideRaceVars, takHist, now, serverUp, sockOk, connected, ready,
                   tak_stop, message_queue, messages_sent, messages_dropped,
                   last_send_time, pcSender, message, pcDisc, submitted, acceptedAt,
                   lock, pcItem, dropped_read, attempts>>

\* --- _send_detection_batch(), one item -------------------------------------
\* the locks the thread inside _send_detection_batch holds on entering the
\* loop body: batch_lock, taken by its caller
HeldByBatcher == IF batch_lock = "free" THEN {} ELSE {BatchLock}

\* "if track_id is not None: with self.rate_limit_lock:" the rate limit
RaceItemRate ==
    /\ batch_lock # "free"
    /\ detection_batch # <<>>
    /\ pcItem = "rate"
    /\ LET track == TrackOf(Head(detection_batch))
           held == HeldByBatcher \cup {RateLimitLock}
       IN  IF track = NoTrack
             THEN /\ pcItem' = "put"
                  /\ access' = {}
                  /\ UNCHANGED <<detection_batch, last_send_time>>
             ELSE IF RateLimited(track, now)
               THEN /\ detection_batch' = Tail(detection_batch)
                    /\ access' = {Access(batch_lock, "last_send_time", "read", held)}
                    /\ UNCHANGED <<pcItem, last_send_time>>
               ELSE /\ last_send_time' = RecordSend(last_send_time, track, now)
                    /\ pcItem' = "put"
                    /\ access' = ReadWrite(batch_lock, "last_send_time", held)
                    /\ UNCHANGED detection_batch
    /\ UNCHANGED <<asideRaceVars, takHist, now, serverUp, sockOk, connected, ready,
                   tak_stop, message_queue, messages_sent, messages_dropped,
                   pending_detections, last_batch_send_time, batch_lock, pcTimer,
                   timerWake, pcSender, message, pcDisc, submitted, acceptedAt,
                   lock, dropped_read, attempts>>

\* "self.message_queue.put_nowait(cot_message)": enqueued, or queue.Full
RaceItemPut ==
    /\ batch_lock # "free"
    /\ detection_batch # <<>>
    /\ pcItem = "put"
    /\ attempts' = attempts + 1
    /\ access' = {}
    /\ LET item == Head(detection_batch)
           track == TrackOf(item)
       IN  IF ~TakQueueFull(message_queue)
             THEN /\ message_queue' = Append(message_queue, item)
                  /\ acceptedAt' = IF track # NoTrack
                                     THEN [acceptedAt EXCEPT ![track] = Append(@, now)]
                                     ELSE acceptedAt
                  /\ detection_batch' = Tail(detection_batch)
                  /\ pcItem' = "rate"
             ELSE /\ pcItem' = "full"
                  /\ UNCHANGED <<message_queue, acceptedAt, detection_batch>>
    /\ UNCHANGED <<asideRaceVars, takHist, now, serverUp, sockOk, connected, ready,
                   tak_stop, messages_sent, messages_dropped, pending_detections,
                   last_send_time, last_batch_send_time, batch_lock, pcTimer,
                   timerWake, pcSender, message, pcDisc, submitted,
                   lock, dropped_read>>

\* "self.messages_dropped += 1" of the except clause: the attribute is read
RaceItemDropRead ==
    /\ batch_lock # "free"
    /\ pcItem = "full"
    /\ dropped_read' = [dropped_read EXCEPT ![batch_lock] = <<messages_dropped>>]
    /\ pcItem' = "store"
    /\ access' = {}
    /\ UNCHANGED <<asideRaceVars, takVars, lock, attempts>>

\* the value "self.messages_dropped += 1" stores: one more than the value it
\* read
StoreDropped(read) == read[1] + 1

\* ... and the sum is stored
RaceItemDropWrite ==
    /\ batch_lock # "free"
    /\ pcItem = "store"
    /\ messages_dropped' = StoreDropped(dropped_read[batch_lock])
    /\ dropped_read' = [dropped_read EXCEPT ![batch_lock] = <<>>]
    /\ detection_batch' = Tail(detection_batch)
    /\ pcItem' = "rate"
    /\ access' = {}
    /\ UNCHANGED <<asideRaceVars, takHist, now, serverUp, sockOk, connected, ready,
                   tak_stop, message_queue, messages_sent, pending_detections,
                   last_send_time, last_batch_send_time, batch_lock, pcTimer,
                   timerWake, pcSender, message, pcDisc, submitted, acceptedAt,
                   lock, attempts>>

\* --- _sender_worker() ------------------------------------------------------
\* "message = self.message_queue.get(timeout=1.0)", for the first MaxRaceGets
\* messages of the queue (message n of the stalled dispatcher is <<NoTrack, n>>)
RaceSenderGet ==
    /\ message_queue # <<>> => Head(message_queue)[2] <= 1 + MaxRaceGets
    /\ SenderGet

\* "if not self.connected:" of the loop body
RaceSenderCheck ==
    /\ pcSender = "ensure"
    /\ pcSender' = IF connected THEN "send" ELSE "reconnect"
    /\ access' = {Access("sender", "connected", "read", {})}
    /\ UNCHANGED <<asideRaceVars, takHist, now, serverUp, sockOk, connected, ready,
                   tak_stop, message_queue, messages_sent, messages_dropped,
                   pending_detections, last_send_time, last_batch_send_time,
                   batch_lock, detection_batch, pcTimer, timerWake, message, pcDisc,
                   submitted, acceptedAt, lock, pcItem, dropped_read, attempts>>

\* "if not self.connect():" of the loop body; connect() works under self.lock
RaceSenderReconnect ==
    /\ pcSender = "reconnect"
    /\ lock = "free"
    /\ Connect
    /\ access' = IF connected
                   THEN {Access("sender", "connected", "read", {ConnectionLock})}
                   ELSE ReadWrite("sender", "connected", {ConnectionLock})
    /\ IF ConnectResult
         THEN /\ ready' = TRUE
              /\ pcSender' = "send"
         ELSE /\ pcSender' = "drop"
              /\ UNCHANGED ready
    /\ UNCHANGED <<asideRaceVars, takHist, now, serverUp, tak_stop, message_queue,
                   messages_sent, messages_dropped, pending_detections,
                   last_send_time, last_batch_send_time, batch_lock, detection_batch,
                   pcTimer, timerWake, message, pcDisc, submitted, acceptedAt,
                   lock, pcItem, dropped_read, attempts>>

\* "with self.lock:" of the send is entered
RaceSenderSendBegin ==
    /\ pcSender = "send"
    /\ lock = "free"
    /\ lock' = "sender"
    /\ pcSender' = "sending"
    /\ access' = {}
    /\ UNCHANGED <<asideRaceVars, now, serverUp, sockOk, connected, ready,
                   tak_stop, message_queue, messages_sent, messages_dropped,
                   pending_detections, last_send_time, last_batch_send_time,
                   batch_lock, detection_batch, pcTimer, timerWake, message, pcDisc,
                   submitted, acceptedAt, takHist, pcItem, dropped_read, attempts>>

\* "self.ssl_socket.send(...)" returns and "self.messages_sent += 1", or it
\* raises; either way the with block is left
RaceSenderSendEnd ==
    /\ pcSender = "sending"
    /\ lock' = "free"
    /\ access' = {}
    /\ IF sockOk
         THEN /\ messages_sent' = messages_sent + 1
              /\ message' = <<>>
              /\ pcSender' = "loop"
         ELSE /\ pcSender' = "failed"
              /\ UNCHANGED <<messages_sent, message>>
    /\ UNCHANGED <<asideRaceVars, takHist, now, serverUp, sockOk, connected, ready,
                   tak_stop, message_queue, messages_dropped, pending_detections,
                   last_send_time, last_batch_send_time, batch_lock, detection_batch,
                   pcTimer, timerWake, pcDisc, submitted, acceptedAt,
                   pcItem, dropped_read, attempts>>

\* "except Exception as send_error: self.connected = False; self.ready = False"
RaceSenderMarkDown ==
    /\ pcSender = "failed"
    /\ connected' = FALSE
    /\ ready' = FALSE
    /\ pcSender' = "drop"
    /\ access' = {Access("sender", "connected", "write", {})}
    /\ UNCHANGED <<asideRaceVars, takHist, now, serverUp, sockOk, tak_stop,
                   message_queue, messages_sent, messages_dropped,
                   pending_detections, last_send_time, last_batch_send_time,
                   batch_lock, detection_batch, pcTimer, timerWake, message, pcDisc,
                   submitted, acceptedAt, lock, pcItem, dropped_read, attempts>>

\* "self.messages_dropped += 1" of the sender thread: the attribute is read
RaceSenderDropRead ==
    /\ pcSender = "drop"
    /\ dropped_read' = [dropped_read EXCEPT !["sender"] = <<messages_dropped>>]
    /\ pcSender' = "store"
    /\ access' = {}
    /\ UNCHANGED <<asideRaceVars, now, serverUp, sockOk, connected, ready,
                   tak_stop, message_queue, messages_sent, messages_dropped,
                   pending_detections, last_send_time, last_batch_send_time,
                   batch_lock, detection_batch, pcTimer, timerWake, message, pcDisc,
                   submitted, acceptedAt, takHist, lock, pcItem, attempts>>

\* ... and the sum is stored; the loop goes on
RaceSenderDropWrite ==
    /\ pcSender = "store"
    /\ messages_dropped' = StoreDropped(dropped_read["sender"])
    /\ dropped_read' = [dropped_read EXCEPT !["sender"] = <<>>]
    /\ message' = <<>>
    /\ pcSender' = "loop"
    /\ access' = {}
    /\ UNCHANGED <<asideRaceVars, takHist, now, serverUp, sockOk, connected, ready,
                   tak_stop, message_queue, messages_sent, pending_detections,
                   last_send_time, last_batch_send_time, batch_lock, detection_batch,
                   pcTimer, timerWake, pcDisc, submitted, acceptedAt,
                   lock, pcItem, attempts>>

\* --- disconnect() ----------------------------------------------------------
\* "with self.batch_lock: if self.pending_detections:" the final batch begins
RaceDiscFlush ==
    /\ pcDisc = "idle"
    /\ batch_lock = "free"
    /\ access' = {Access("disconnect", "pending_detections", "read", {BatchLock})}
    /\ IF pending_detections # <<>>
         THEN /\ detection_batch' = pending_detections
              /\ final_batch' = pending_detections
              /\ batch_lock' = "disconnect"
              /\ pcDisc' = "flush"
         ELSE /\ pcDisc' = "stop"
              /\ UNCHANGED <<detection_batch, batch_lock, final_batch>>
    /\ UNCHANGED <<asideRaceVars, trimmed, send_result, now, serverUp, sockOk,
                   connected, ready, tak_stop, message_queue, messages_sent,
                   messages_dropped, pending_detections, last_send_time,
                   last_batch_send_time, pcTimer, timerWake, pcSender, message,
                   submitted, acceptedAt, lock, pcItem, dropped_read, attempts>>

\* the final batch returned: "self.pending_detections = []", lock released
RaceDiscFlushDone ==
    /\ pcDisc = "flush"
    /\ detection_batch = <<>>
    /\ pending_detections' = <<>>
    /\ batch_lock' = "free"
    /\ pcDisc' = "stop"
    /\ access' = {Access("disconnect", "pending_detections", "write", {BatchLock})}
    /\ UNCHANGED <<asideRaceVars, takHist, now, serverUp, sockOk, connected, ready,
                   tak_stop, message_queue, messages_sent, messages_dropped,
                   last_send_time, last_batch_send_time, detection_batch, pcTimer,
                   timerWake, pcSender, message, submitted, acceptedAt,
                   lock, pcItem, dropped_read, attempts>>

\* the joins have returned; "with self.lock:" the socket is closed and
\* "self.connected = False"
RaceDiscClose ==
    /\ pcDisc = "close"
    /\ lock = "free"
    /\ sockOk' = FALSE
    /\ connected' = FALSE
    /\ pcDisc' = "done"
    /\ access' = {Access("disconnect", "connected", "write", {ConnectionLock})}
    /\ UNCHANGED <<asideRaceVars, takHist, now, serverUp, ready, tak_stop,
                   message_queue, messages_sent, messages_dropped,
                   pending_detections, last_send_time, last_batch_send_time,
                   batch_lock, detection_batch, pcTimer, timerWake, pcSender,
                   message, submitted, acceptedAt, lock, pcItem, dropped_read,
                   attempts>>

\* the stalled dispatcher goes on: the server may go away (the send raises),
\* the output stage submits a tracked detection, the batch timer wakes up, and
\* run() may call disconnect() at any moment. SenderLoop, SenderGet,
\* TimerWait, TimerBatchDone and DiscStop touch none of pending_detections,
\* last_send_time, connected and messages_dropped
NextRace ==
    \/ ServerDown
    \/ RaceSubmit
    \/ TimerWait \/ RaceTimerTick \/ TimerBatchDone
    \/ RaceItemRate \/ RaceItemPut \/ RaceItemDropRead \/ RaceItemDropWrite
    \/ SenderLoop \/ RaceSenderGet \/ RaceSenderCheck \/ RaceSenderReconnect
    \/ RaceSenderSendBegin \/ RaceSenderSendEnd \/ RaceSenderMarkDown
    \/ RaceSenderDropRead \/ RaceSenderDropWrite
    \/ RaceDiscFlush \/ RaceDiscFlushDone \/ DiscStop \/ RaceDiscClose

\* ---------------------------------------------------------------------------
\* Part XI: WebSocketWriter (src/src/outputs/websocket.py): the coroutines of
\* its event loop and the threading.Lock around self.clients
\* ---------------------------------------------------------------------------
\* Bounds
\* number of clients that connect to /ws
MaxWsClients == 2
\* number of write_frame / send_metadata calls of the pipeline
MaxBroadcasts == 2

WsClients == 1..MaxWsClients
Broadcasts == 1..MaxBroadcasts

\* self._lock is free
Unlocked == 0
\* the event-loop thread is inside no lock.acquire()
NotBlocked == <<>>
\* a _broadcast coroutine is between two awaits of ws.send_str
NoClient == 0

InitWs ==
    /\ ws_clients = {}
    /\ ws_lock = Unlocked
    /\ ws_blocked = NotBlocked
    /\ ws_handler = [c \in WsClients |-> "absent"]
    /\ ws_paused = [c \in WsClients |-> FALSE]
    /\ ws_closed = [c \in WsClients |-> FALSE]
    /\ ws_calls = 0
    /\ pcBroadcast = [b \in Broadcasts |-> "uncalled"]
    /\ broadcast_at = [b \in Broadcasts |-> NoClient]
    /\ broadcast_left = [b \in Broadcasts |-> {}]
    /\ dead_clients = [b \in Broadcasts |-> {}]

WsAtRest == InitWs

\* --- the clients -----------------------------------------------------------
\* a client opens /ws: aiohttp starts _handle_websocket, "await ws.prepare"
WsClientConnects(c) ==
    /\ ws_handler[c] = "absent"
    /\ ws_handler' = [ws_handler EXCEPT ![c] = "prepared"]
    /\ UNCHANGED <<asideWsVars, ws_clients, ws_lock, ws_blocked, ws_paused, ws_closed,
                   ws_calls, pcBroadcast, broadcast_at, broadcast_left, dead_clients>>

\* a connected client stops reading: the transport's write buffer passes its
\* high-water mark and writing is paused (a send_str now waits in drain)
WsClientStalls(c) ==
    /\ ws_handler[c] \in {"prepared", "listening"}
    /\ ~ws_closed[c]
    /\ ~ws_paused[c]
    /\ ws_paused' = [ws_paused EXCEPT ![c] = TRUE]
    /\ UNCHANGED <<asideWsVars, ws_clients, ws_lock, ws_blocked, ws_handler, ws_closed,
                   ws_calls, pcBroadcast, broadcast_at, broadcast_left, dead_clients>>

\* the client reads again: the buffer drains and writing is resumed
WsClientReads(c) ==
    /\ ws_paused[c]
    /\ ws_paused' = [ws_paused EXCEPT ![c] = FALSE]
    /\ UNCHANGED <<asideWsVars, ws_clients, ws_lock, ws_blocked, ws_handler, ws_closed,
                   ws_calls, pcBroadcast, broadcast_at, broadcast_left, dead_clients>>

\* the client closes the connection: ws.closed, "async for msg in ws" ends
WsClientCloses(c) ==
    /\ ws_handler[c] \in {"prepared", "listening"}
    /\ ~ws_closed[c]
    /\ ws_closed' = [ws_closed EXCEPT ![c] = TRUE]
    /\ ws_paused' = [ws_paused EXCEPT ![c] = FALSE]
    /\ UNCHANGED <<asideWsVars, ws_clients, ws_lock, ws_blocked, ws_handler,
                   ws_calls, pcBroadcast, broadcast_at, broadcast_left, dead_clients>>

\* --- write_frame() / send_metadata(), on the pipeline's thread -------------
\* "if not self.clients: return"; otherwise
\* "asyncio.run_coroutine_threadsafe(self._broadcast(...), self._loop)"
WsWrite ==
    /\ ws_calls < MaxBroadcasts
    /\ ws_calls' = ws_calls + 1
    /\ pcBroadcast' = [pcBroadcast EXCEPT ![ws_calls + 1] =
                          IF ws_clients = {} THEN "returned" ELSE "scheduled"]
    /\ UNCHANGED <<asideWsVars, ws_clients, ws_lock, ws_blocked, ws_handler, ws_paused,
                   ws_closed, broadcast_at, broadcast_left, dead_clients>>

\* --- the event loop --------------------------------------------------------
\* the event-loop thread can run a coroutine: it is not waiting in the
\* acquire of a "with self._lock:"
LoopRuns == ws_blocked = NotBlocked

\* "with self._lock:" is entered without waiting: threading.Lock is free
AcquireSucceeds == ws_lock = Unlocked

\* "for ws in self.clients:" goes on with the clients "left" (in any order):
\* closed ones are marked dead, send_str to the others returns at once unless
\* the client's transport is paused, where the coroutine is suspended in
\* "await ws.send_str(json_str)" holding the lock; after the last client
\* "self.clients -= dead_clients" and the lock is released
BroadcastGoesOn(b, left, dead) ==
    LET slow == {c \in left : ~ws_closed[c] /\ ws_paused[c]}
    IN  \/ /\ slow = {}
           /\ ws_clients' = ws_clients \ (dead \cup {c \in left : ws_closed[c]})
           /\ ws_lock' = Unlocked
           /\ pcBroadcast' = [pcBroadcast EXCEPT ![b] = "done"]
           /\ broadcast_at' = [broadcast_at EXCEPT ![b] = NoClient]
           /\ broadcast_left' = [broadcast_left EXCEPT ![b] = {}]
           /\ dead_clients' = [dead_clients EXCEPT ![b] = {}]
        \/ \E c \in slow : \E before \in SUBSET (left \ slow) :
              /\ ws_lock' = b
              /\ pcBroadcast' = [pcBroadcast EXCEPT ![b] = "awaiting"]
              /\ broadcast_at' = [broadcast_at EXCEPT ![b] = c]
              /\ broadcast_left' = [broadcast_left EXCEPT ![b] = left \ (before \cup {c})]
              /\ dead_clients' = [dead_clients EXCEPT ![b] =
                                     dead \cup {d \in before : ws_closed[d]}]
              /\ UNCHANGED ws_clients

\* the loop starts the oldest scheduled _broadcast: "if not self.clients:
\* return", then "with self._lock:" and the loop over the clients; with the
\* lock taken the thread waits in acquire()
WsBroadcastStart(b) ==
    /\ LoopRuns
    /\ pcBroadcast[b] = "scheduled"
    /\ \A earlier \in 1..(b - 1) : pcBroadcast[earlier] # "scheduled"
    /\ IF ws_clients = {}
         THEN /\ pcBroadcast' = [pcBroadcast EXCEPT ![b] = "done"]
              /\ UNCHANGED <<ws_clients, ws_lock, ws_blocked, broadcast_at,
                             broadcast_left, dead_clients>>
         ELSE IF AcquireSucceeds
           THEN /\ BroadcastGoesOn(b, ws_clients, {})
                /\ UNCHANGED ws_blocked
           ELSE /\ ws_blocked' = <<"broadcast", b>>
                /\ UNCHANGED <<ws_clients, ws_lock, pcBroadcast, broadcast_at,
                               broadcast_left, dead_clients>>
    /\ UNCHANGED <<asideWsVars, ws_handler, ws_paused, ws_closed, ws_calls>>

\* the send_str a _broadcast was suspended in returns (the buffer drained) or
\* raises (the connection is closed: the client is marked dead)
WsBroadcastResume(b) ==
    /\ LoopRuns
    /\ pcBroadcast[b] = "awaiting"
    /\ LET c == broadcast_at[b]
       IN  /\ ws_closed[c] \/ ~ws_paused[c]
           /\ BroadcastGoesOn(b, broadcast_left[b],
                              IF ws_closed[c] THEN dead_clients[b] \cup {c}
                              ELSE dead_clients[b])
    /\ UNCHANGED <<asideWsVars, ws_blocked, ws_handler, ws_paused, ws_closed, ws_calls>>

\* _handle_websocket after "await ws.prepare(request)":
\* "with self._lock: self.clients.add(ws)"
WsHandlerAdd(c) ==
    /\ LoopRuns
    /\ ws_handler[c] = "prepared"
    /\ IF AcquireSucceeds
         THEN /\ ws_clients' = ws_clients \cup {c}
              /\ ws_handler' = [ws_handler EXCEPT ![c] = "listening"]
              /\ UNCHANGED ws_blocked
         ELSE /\ ws_blocked' = <<"handler", c>>
              /\ UNCHANGED <<ws_clients, ws_handler>>
    /\ UNCHANGED <<asideWsVars, ws_lock, ws_paused, ws_closed, ws_calls, pcBroadcast,
                   broadcast_at, broadcast_left, dead_clients>>

\* "finally: with self._lock: self.clients.discard(ws)" once the client's
\* messages have ended
WsHandlerDiscard(c) ==
    /\ LoopRuns
    /\ ws_handler[c] = "listening"
    /\ ws_closed[c]
    /\ IF AcquireSucceeds
         THEN /\ ws_clients' = ws_clients \ {c}
              /\ ws_handler' = [ws_handler EXCEPT ![c] = "done"]
              /\ UNCHANGED ws_blocked
         ELSE /\ ws_blocked' = <<"handler", c>>
              /\ UNCHANGED <<ws_clients, ws_handler>>
    /\ UNCHANGED <<asideWsVars, ws_lock, ws_paused, ws_closed, ws_calls, pcBroadcast,
                   broadcast_at, broadcast_left, dead_clients>>

\* the lock is released only by a coroutine of the loop, so a thread waiting
\* in acquire() has no step of its own
NextWs ==
    \/ \E c \in WsClients : WsClientConnects(c)
    \/ \E c \in WsClients : WsClientStalls(c)
    \/ \E c \in WsClients : WsClientReads(c)
    \/ \E c \in WsClients : WsClientCloses(c)
    \/ WsWrite
    \/ \E b \in Broadcasts : WsBroadcastStart(b)
    \/ \E b \in Broadcasts : WsBroadcastResume(b)
    \/ \E c \in WsClients : WsHandlerAdd(c)
    \/ \E c \in WsClients : WsHandlerDiscard(c)

\* the parts after Part IX as constructed
RestAtRest == RaceAtRest /\ WsAtRest

\* the parts after Part VII as constructed
TailAtRest == GeoAtRest /\ OutputAtRest /\ RestAtRest

\* the parts after Part V as constructed
LaterAtRest == CapErrAtRest /\ KlvAtRest /\ TailAtRest

\* ---------------------------------------------------------------------------
\* Specifications
\* ---------------------------------------------------------------------------
\* the dispatcher as constructed, before any of its threads has run
TakAtRest == InitTak /\ serverUp
\* the pipeline as constructed, live mode without frame skipping
PipelineAtRest == InitPipeline /\ ~batch_output /\ skip_frames = 0

Init == InitPipeline /\ TakAtRest /\ CotAtRest /\ SseAtRest /\ RunAtRest /\ LaterAtRest

Spec == Init /\ [][NextPipeline]_vars

TakInit == PipelineAtRest /\ InitTak /\ CotAtRest /\ SseAtRest /\ RunAtRest /\ LaterAtRest

TakSpec == TakInit /\ [][NextTak]_vars

\* the sender thread, the batch timer thread and the thread inside
\* _send_detection_batch are scheduled by the operating system: each keeps
\* taking steps while it can. The environment (clock, server, callers) is
\* under no obligation.
FairTakSpec ==
    /\ TakSpec
    /\ WF_vars(SenderStep)
    /\ WF_vars(TimerStep)
    /\ WF_vars(BatchItem)

\* the dispatcher with callers that do not wait for it to be ready
UnreadySpec == TakInit /\ [][UnreadyNext]_vars

\* the dispatcher as constructed with the TAK server reachable
ReachableInit == PipelineAtRest /\ TakAtRest /\ CotAtRest /\ SseAtRest /\ RunAtRest /\ LaterAtRest

\* the dispatcher under a burst of submissions
BurstSpec == ReachableInit /\ [][BurstNext]_vars

\* the dispatcher under a stream of one detection per second
PacedSpec == ReachableInit /\ [][PacedNext]_vars

\* the dispatcher under that stream with a server that reads nothing
BacklogSpec == ReachableInit /\ [][BacklogNext]_vars

\* two detections to render; pipeline and dispatcher stay as constructed
CotInit == PipelineAtRest /\ TakAtRest /\ InitCot /\ SseAtRest /\ RunAtRest /\ LaterAtRest

\* the broadcaster as constructed, with the clients that will connect
SseInit == PipelineAtRest /\ TakAtRest /\ CotAtRest /\ InitSse /\ RunAtRest /\ LaterAtRest

SseSpec == SseInit /\ [][NextSse]_vars

CotSpec == CotInit /\ [][NextCot]_vars

\* run() entered with the stream open; the other parts stay as constructed
RunInit == PipelineAtRest /\ TakAtRest /\ CotAtRest /\ SseAtRest /\ InitRun /\ LaterAtRest

RunSpec == RunInit /\ [][NextRun]_vars

\* the pipeline on an input whose transport can fail
CaptureErrorInit ==
    InitPipeline /\ TakAtRest /\ CotAtRest /\ SseAtRest /\ RunAtRest /\ InitCapErr
        /\ KlvAtRest /\ TailAtRest

CaptureErrorSpec == CaptureErrorInit /\ [][NextCaptureError]_vars

\* a blob handed to the decoder; everything else stays as constructed
KlvInit ==
    PipelineAtRest /\ TakAtRest /\ CotAtRest /\ SseAtRest /\ RunAtRest
        /\ CapErrAtRest /\ InitKlv /\ TailAtRest

KlvSpec == KlvInit /\ [][NextKlv]_vars

\* both pipelines as constructed, the legacy one with its stream open
KlvSlotInit ==
    PipelineAtRest /\ TakAtRest /\ CotAtRest /\ SseAtRest /\ InitRun /\ InitCapErr
        /\ KlvAtRest /\ TailAtRest

KlvSlotSpec == KlvSlotInit /\ [][NextKlvSlot]_vars

\* one call of calculate_object_coordinates; everything else stays as constructed
GeoInit ==
    PipelineAtRest /\ TakAtRest /\ CotAtRest /\ SseAtRest /\ RunAtRest
        /\ CapErrAtRest /\ KlvAtRest /\ InitGeo /\ OutputAtRest /\ RestAtRest

GeoSpec == GeoInit /\ [][NextGeo]_vars

\* the output thread started on an empty queue; the rest stays as constructed
OutputInit ==
    PipelineAtRest /\ TakAtRest /\ CotAtRest /\ SseAtRest /\ RunAtRest
        /\ CapErrAtRest /\ KlvAtRest /\ GeoAtRest /\ InitOutput /\ RestAtRest

OutputSpec == OutputInit /\ [][NextOutput]_vars

\* the stalled dispatcher; the other parts stay as constructed
RaceInit ==
    PipelineAtRest /\ InitRace /\ CotAtRest /\ SseAtRest /\ RunAtRest
        /\ CapErrAtRest /\ KlvAtRest /\ GeoAtRest /\ OutputAtRest /\ WsAtRest

RaceSpec == RaceInit /\ [][NextRace]_vars

\* the WebSocket writer once its server runs; the other parts stay as constructed
WsInit ==
    PipelineAtRest /\ TakAtRest /\ CotAtRest /\ SseAtRest /\ RunAtRest
        /\ CapErrAtRest /\ KlvAtRest /\ GeoAtRest /\ OutputAtRest /\ RaceAtRest
        /\ InitWs

WsSpec == WsInit /\ [][NextWs]_vars

\* the event loop runs a coroutine that is ready whenever its thread is free,
\* and a client that has stopped reading reads again in the end
FairWsSpec ==
    /\ WsSpec
    /\ \A b \in Broadcasts : WF_vars(WsBroadcastStart(b)) /\ WF_vars(WsBroadcastResume(b))
    /\ \A c \in WsClients : WF_vars(WsHandlerAdd(c)) /\ WF_vars(WsHandlerDiscard(c))
    /\ \A c \in WsClients : WF_vars(WsClientReads(c))

AllDone == pcCap = "done" /\ pcInf = "done" /\ pcOut = "done"

\* ---------------------------------------------------------------------------
\* Properties of the pipeline
\* ---------------------------------------------------------------------------
StrictlyIncreasing(s) == \A i \in 1..Len(s) : \A j \in 1..Len(s) : i < j => s[i] < s[j]

\* C1: in batch mode with skip_frames = 0 the output stage processes every
\* decoded frame exactly once and in frame-index order: what it has processed
\* is always 1, 2, ..., k without a gap, and when the three threads have ended
\* after the end of the input (no interrupt) it has processed all frame_count
\* frames.
C1_BatchEveryFrameOnceInOrder ==
    (batch_output /\ skip_frames = 0) =>
        /\ \A i \in 1..Len(outSeen) : outSeen[i] = i
        /\ (AllDone /\ pcMain # "interrupted") => Len(outSeen) = frame_count

\* C2: in live mode the capture thread's put on the inference queue never
\* blocks (whenever the thread stands at the put, the queue has a free slot),
\* a full queue loses its oldest frame to make room, and right after the put
\* the frame just pushed is the newest element of the queue.
C2_LivePushNeverBlocks ==
    /\ [](((~batch_output) /\ pcCap = "put") => Len(inference_queue) < 2)
    /\ [][((~batch_output) /\ pcCap = "get_nowait" /\ pcCap' = "put"
             /\ Len(inference_queue) = 2)
            => inference_queue' = Tail(inference_queue)]_vars
    /\ [][((~batch_output) /\ pcCap = "put" /\ pcCap' # "put")
            => (/\ inference_queue' # <<>>
                /\ inference_queue'[Len(inference_queue')] = capFrame
                /\ capFrame = frame_count)]_vars

\* C2 witness: live mode, frame 1 was displaced from the full queue (the
\* inference stage never saw it) and frame 3 was pushed behind frame 2.
C2_Witness ==
    /\ ~batch_output /\ skip_frames = 0
    /\ pcCap = "demux"
    /\ inference_queue = <<2, 3>>
    /\ infSeen = <<>>

\* C3: the frame the inference stage's leaky put throws away is never the
\* newest one, i.e. never the frame the stage has just run through the tracker.
C3_DiscardedNeverNewest ==
    (discarded # NoFrame /\ infSeen # <<>>) => discarded # infSeen[Len(infSeen)]

\* C4: the frame indices seen by the inference stage and by the output stage
\* are strictly increasing sequences.
C4_StagesSeeIncreasingIndices ==
    StrictlyIncreasing(infSeen) /\ StrictlyIncreasing(outSeen)

\* C4 witness: the output stage processed two frames with a gap between them
\* although the capture stage skipped none: a frame went missing at a queue.
C4_Witness ==
    /\ skip_frames = 0
    /\ Len(outSeen) >= 2
    /\ outSeen[2] > outSeen[1] + 1
    /\ Len(infSeen) >= 3

\* C5: both queues hold at most 2 frames in every reachable state.
C5_QueuesHoldAtMostTwo ==
    Len(inference_queue) <= 2 /\ Len(output_queue) <= 2

\* C5 witness: both queues are full while the capture thread, in batch mode,
\* waits in put() with a further frame.
C5_Witness ==
    /\ Len(inference_queue) = 2 /\ Len(output_queue) = 2
    /\ pcCap = "put" /\ batch_output

\* C6: no enqueued frame is abandoned at shutdown: when the three stage
\* threads have ended, both queues have been drained.
C6_QueuesDrainedAtShutdown ==
    AllDone => (inference_queue = <<>> /\ output_queue = <<>>)

\* C7: once the stop flag is set the three threads terminate: the pipeline is
\* never stuck with the flag set, a thread still alive and no thread able to
\* take a step.
C7_StopTerminatesAllThreads ==
    stop_event => (AllDone \/ ENABLED ThreadStep)

\* ---------------------------------------------------------------------------
\* Properties of the dispatcher
\* ---------------------------------------------------------------------------
\* C8: the dispatcher auto-reconnects: whenever it is not ready while the
\* server is reachable, it eventually becomes ready (unless it is stopped or
\* the server is seen to go away again first).
C8_AutoReconnect ==
    (~ready /\ serverUp) ~> (ready \/ tak_stop \/ ~serverUp)

C10_TrackRateLimit ==
    \A t \in TrackIds :
        /\ \A i \in 1..Len(acceptedAt[t]) : \A j \in 1..Len(acceptedAt[t]) :
              i < j => acceptedAt[t][j] - acceptedAt[t][i] >= UpdateInterval
        /\ Len(acceptedAt[t]) <= 1 + ((now - Epoch) \div UpdateInterval)

\* C10 witness: the batch timer enqueued a message of track 7 and the final
\* flush of disconnect() enqueued the next one exactly update_interval later.
C10_Witness ==
    /\ Len(acceptedAt[7]) = 2
    /\ acceptedAt[7][1] = last_batch_send_time
    /\ acceptedAt[7][2] - acceptedAt[7][1] = UpdateInterval
    /\ batch_lock = "disconnect"

\* C11: under a stream of submissions that keeps to 5 items per 5 s no
\* submitted item is lost to the trim of the pending list: the trim never
\* removes an entry.
C11_PacedStreamLosesNothing ==
    trimmed = 0

\* C12: the pending list never holds more than 20 entries; it always consists
\* of the most recently submitted detections, in submission order; and a
\* submission to a list of 20 drops the oldest entry and keeps the 20 newest.
C12_PendingKeepsNewestTwenty ==
    /\ [](Len(pending_detections) <= 20)
    /\ [](\A i \in 1..Len(pending_detections) :
              pending_detections[i][2] = submitted - Len(pending_detections) + i)
    /\ [][(submitted' = submitted + 1 /\ Len(pending_detections) = 20)
            => (/\ Len(pending_detections') = 20
                /\ \A i \in 1..19 : pending_detections'[i] = pending_detections[i + 1]
                /\ pending_detections'[20][2] = submitted')]_vars

\* C12 witness: the 21st submission overflowed the list, which now holds
\* submissions 2 to 21.
C12_Witness ==
    /\ trimmed = 1
    /\ submitted = 21
    /\ Len(pending_detections) = 20
    /\ pending_detections[1][2] = 2
    /\ pending_detections[20][2] = 21

C14_NotReadyDropsDetection ==
    [][((~ready) /\ (send_result' # send_result \/ submitted' # submitted))
        => (/\ send_result' = "False"
            /\ submitted' = submitted
            /\ pending_detections' = pending_detections
            /\ last_send_time' = last_send_time
            /\ message_queue' = message_queue)]_vars

\* C14 witness: a detection was taken in earlier, then a write failed, and
\* the call made after that failure returned False.
C14_Witness ==
    /\ send_result = "False"
    /\ submitted >= 1
    /\ ~ready
    /\ messages_dropped = 1
    /\ pending_detections = <<>>

InSeq(x, s) == \E j \in 1..Len(s) : s[j] = x

\* C15: every entry pending when disconnect() is called has gone through the
\* per-item handler before stop is signalled, and none of the messages of
\* that final batch is still waiting to be written (in the send queue or in
\* the sender's hands) when the sender thread has ended and disconnect() has
\* closed the socket.
C15_FinalBatchWrittenBeforeClose ==
    /\ tak_stop =>
          \A i \in 1..Len(final_batch) : ~InSeq(final_batch[i], detection_batch)
    /\ (pcDisc = "done" /\ pcSender = "done") =>
          \A i \in 1..Len(final_batch) :
              /\ ~InSeq(final_batch[i], message_queue)
              /\ message # <<final_batch[i]>>

\* ---------------------------------------------------------------------------
\* Properties of build_cot_message
\* ---------------------------------------------------------------------------
\* both detections carry a track_id and a message was built for each
BothRendered ==
    /\ uid_a # Unbuilt /\ uid_a # NoMessage
    /\ uid_b # Unbuilt /\ uid_b # NoMessage
    /\ det_a.track_id # NoTrack /\ det_b.track_id # NoTrack

\* C16 as claimed: two detections with the same track_id are rendered with the
\* same UID, whatever their other fields.
C16_UidFunctionOfTrackId ==
    (BothRendered /\ det_a.track_id = det_b.track_id) => uid_a = uid_b

\* C16 as amended: two detections with the same track_id and the same
\* class_name are rendered with the same UID, whatever their frame number and
\* other fields.
C16_UidStableForTrackAndClass ==
    (BothRendered /\ det_a.track_id = det_b.track_id
                  /\ det_a.class_name = det_b.class_name) => uid_a = uid_b

\* C16 witness: track 7 as a car in frame 1 and in frame 2, with different
\* draws of uuid4, rendered twice with the one UID YOLO-car-7.
C16_Witness ==
    /\ BothRendered
    /\ det_a.track_id = 7 /\ det_b.track_id = 7
    /\ det_a.class_name = <<"car">> /\ det_b.class_name = <<"car">>
    /\ det_a.frame_num = 1 /\ det_b.frame_num = 2
    /\ det_a.uuid # det_b.uuid
    /\ uid_a = <<"YOLO", "car", 7>>
    /\ uid_b = uid_a

\* ---------------------------------------------------------------------------
\* Properties of the SSE broadcaster
\* ---------------------------------------------------------------------------
\* C17: a subscriber whose queue was full at a publish only misses events: as
\* long as its handler serves the stream, its queue stays in the
\* broadcaster's subscriber list.
C17_FullSubscriberStaysSubscribed ==
    \A s \in SubIds :
        pcHandler[s] \in {"loop", "get", "write"} => s \in Members(subscribers)

\* C18: every subscriber queue holds at most 1000 events; publish can always
\* be carried out, whatever the queues hold and the handlers do; and one
\* publish puts at most its one event at the end of each queue.
C18_PublishBoundedNonBlocking ==
    /\ [](\A s \in SubIds : Len(sse_queue[s]) <= 1000)
    /\ [](ENABLED PublishCall)
    /\ [][published' = published + 1 =>
            \A s \in SubIds :
                \/ sse_queue'[s] = sse_queue[s]
                \/ /\ Len(sse_queue[s]) < 1000
                   /\ sse_queue'[s] = Append(sse_queue[s], published')]_vars

\* C18 witness: the handler of a stalled client holds event 1, its queue
\* holds events 2 to 1001, and event 1002 was published on the full queue.
C18_Witness ==
    \E s \in SubIds :
        /\ client[s] = "stalled"
        /\ handler_data[s] = 1
        /\ Len(sse_queue[s]) = 1000
        /\ sse_queue[s][1000] = 1001
        /\ published = 1002

\* a step of _reconnect_stream that ends a re-open attempt
ReconnectStep == \E outcome \in OpenOutcomes : ReconnectOpen(outcome)

\* ---------------------------------------------------------------------------
\* C19. _reconnect_stream makes at most max_retries (5) attempts; before
\* attempt k it closes the transport and waits retry_delay * 2^k; after
\* max_retries failed attempts it returns failure, upon which the run loop
\* exits and the pipeline is stopped.
\* ---------------------------------------------------------------------------
ReconnectBackoffAndLimit ==
    /\ Len(waits) <= 5
    /\ \A k \in 1..Len(waits) : waits[k] = 3 * (2 ^ (k - 1))
    /\ pcRun = "rc_open" => ~container_open /\ Len(waits) = attempt + 1
    /\ reconnect_result = "False" =>
          /\ Len(waits) = 5
          /\ pcRun \in {"exit", "stopped"}
    /\ (reconnect_result = "False" /\ pcRun = "stopped") =>
          run_stop /\ ~container_open
    /\ (pcRun = "rc_close" /\ attempt = 5) => ENABLED ReconnectClose

\* C19 as stated: ... and it returns success at the first attempt that
\* re-opens a transport with a video stream.
C19_SuccessAtFirstVideoStream ==
    /\ []ReconnectBackoffAndLimit
    /\ [][ReconnectStep =>
            ((reconnect_result' = "True") <=> (last_open' \in {"not_ready", "ready"}))
       ]_vars

\* C19, amended: ... and it returns success at the first attempt that
\* re-opens a transport with a video stream whose width and height are
\* positive or, from the third attempt on, with any video stream.
C19_SuccessAtFirstUsableVideoStream ==
    /\ []ReconnectBackoffAndLimit
    /\ [][ReconnectStep =>
            ((reconnect_result' = "True") <=>
                 \/ last_open' = "ready"
                 \/ last_open' = "not_ready" /\ Len(waits) >= 3)
       ]_vars

\* the third attempt succeeds on a video stream that is not ready, after the
\* waits 3, 6 and 12
C19_Witness ==
    /\ reconnect_result = "True"
    /\ last_open = "not_ready"
    /\ waits = <<3, 6, 12>>
    /\ pcRun = "loop"

\* ---------------------------------------------------------------------------
\* C20. The run loop enters reconnection only after 5 errors with no
\* successfully demuxed packet in between; errors separated by successful
\* packets do not accumulate towards the threshold.
\* ---------------------------------------------------------------------------
C20_ReconnectOnlyAfterFiveInARow ==
    (pcRun = "rc_close" /\ attempt = 0) => errors_in_a_row >= 5

\* ---------------------------------------------------------------------------
\* C21. In ThreadedPipeline a stream error raised by the demux loop of the
\* capture stage does not end the pipeline: the step that handles the error
\* leaves the stop flag clear and the capture thread alive (it goes on to
\* re-establish the stream).
\* ---------------------------------------------------------------------------
C21_StreamErrorDoesNotEndCapture ==
    [][(~capture_error /\ capture_error' /\ ~stop_event) =>
            (~stop_event' /\ pcCap' # "done")]_vars

C23_TelemetrySlotStaysFilled ==
    /\ klv_seen => Truthy(latest_klv)
    /\ cap_klv_seen => Truthy(cap_latest_klv)

\* both slots are filled, and the last data packet of each pipeline gave
\* nothing: None in the legacy loop, an empty record in the capture thread
C23_Witness ==
    /\ klv_seen /\ last_klv_result = NoRecord /\ latest_klv = <<"latitude", "longitude">>
    /\ cap_klv_seen /\ cap_klv_result = EmptyRecord
    /\ cap_latest_klv = <<"latitude", "longitude">>
    /\ frame_count >= 1

\* ---------------------------------------------------------------------------
\* C24. decode returns None for any blob that does not start with the
\* 16-byte universal label, and for a first length byte other than L < 128,
\* 0x81 and 0x82; otherwise the value region has the length the BER field
\* says: with lengths 4, 127, 128, 255, 256 and 65535 in each form that can
\* carry them, the item that ends the region is decoded and the item right
\* after it is not.
\* ---------------------------------------------------------------------------
UniversalLabel == <<6, 14, 43, 52, 2, 11, 1, 1, 14, 1, 3, 1, 1, 0, 0, 0>>

HasLabel(data) == Len(data) >= 16 /\ SubSeq(data, 1, 16) = UniversalLabel

C24_FramingAndBerLength ==
    klv_done =>
       /\ ~HasLabel(klv_data) => klv_result = NotApplicable
       /\ (/\ HasLabel(klv_data)
           /\ Len(klv_data) > 16
           /\ klv_data[17] >= 128
           /\ klv_data[17] \notin {129, 130}) => klv_result = NotApplicable
       /\ klv_case.family = "framing" =>
             /\ klv_result.applicable
             /\ DOMAIN klv_result.telemetry = {"altitude"}
             /\ klv_result.telemetry["altitude"] = [num |-> 1234, den |-> 10]

\* a value region of 65535 bytes behind 0x82 0xFF 0xFF was read to its end
C24_Witness ==
    /\ klv_done
    /\ klv_case.family = "framing"
    /\ Len(klv_data) = 16 + 3 + 65535 + 4
    /\ klv_data[17] = 130 /\ klv_data[18] = 255 /\ klv_data[19] = 255
    /\ DOMAIN klv_result.telemetry = {"altitude"}

\* ---------------------------------------------------------------------------
\* The tag table of the decoder's contract: field, bytes, signedness and
\* scale of the integer tags, and what an item is worth under it.
\* ---------------------------------------------------------------------------
IntegerTag(field, bytes, signed, scale) ==
    [field |-> field, bytes |-> bytes, signed |-> signed, scale |-> scale]

IntegerTags ==
    [t \in {2, 5, 6, 7, 13, 14, 15, 18, 19, 21, 22, 23, 105, 106, 107} |->
       CASE t = 2   -> IntegerTag("timestamp_us", 8, FALSE, 1)
         [] t = 5   -> IntegerTag("roll", 2, TRUE, 100)
         [] t = 6   -> IntegerTag("pitch", 2, TRUE, 100)
         [] t = 7   -> IntegerTag("heading", 2, FALSE, 100)
         [] t = 13  -> IntegerTag("latitude", 4, TRUE, 10000000)
         [] t = 14  -> IntegerTag("longitude", 4, TRUE, 10000000)
         [] t = 15  -> IntegerTag("altitude", 2, FALSE, 10)
         [] t = 18  -> IntegerTag("sensor_h_fov", 2, FALSE, 100)
         [] t = 19  -> IntegerTag("sensor_v_fov", 2, FALSE, 100)
         [] t = 21  -> IntegerTag("gimbal_roll_rel", 4, TRUE, 1000000)
         [] t = 22  -> IntegerTag("gimbal_pitch_rel", 4, TRUE, 1000000)
         [] t = 23  -> IntegerTag("gimbal_yaw_rel", 4, TRUE, 1000000)
         [] t = 105 -> IntegerTag("gimbal_yaw_abs", 4, TRUE, 1000000)
         [] t = 106 -> IntegerTag("gimbal_pitch_abs", 4, TRUE, 1000000)
         [] t = 107 -> IntegerTag("gimbal_roll_abs", 4, TRUE, 1000000)]

FloatFields == {"sensor_width_mm", "sensor_height_mm", "focal_length_mm"}

\* the big-endian integer of up to four bytes, two's complement when signed
BigEndianInteger(bytes, signed) ==
    LET digit(i) == IF i = 1 /\ signed /\ bytes[1] >= 128 THEN bytes[1] - 256
                    ELSE bytes[i]
        upTo[i \in 0..Len(bytes)] == IF i = 0 THEN 0 ELSE upTo[i - 1] * 256 + digit(i)
    IN  upTo[Len(bytes)]

\* an unsigned integer of eight bytes in base 65536
BigEndianInteger64(bytes) == [d \in 1..4 |-> bytes[2 * d - 1] * 256 + bytes[2 * d]]

\* an item that carries an integer tag at its declared width, and its value
Carries(item) ==
    item.tag \in DOMAIN IntegerTags /\ Len(item.value) = IntegerTags[item.tag].bytes

ValueOf(item) ==
    [num |-> IF IntegerTags[item.tag].bytes = 8 THEN BigEndianInteger64(item.value)
             ELSE BigEndianInteger(item.value, IntegerTags[item.tag].signed),
     den |-> IntegerTags[item.tag].scale]

\* the item at i is the last of those at the positions D that carries its tag
LastCarrier(items, D, i) ==
    /\ i \in D
    /\ Carries(items[i])
    /\ \A j \in D : j > i => ~(Carries(items[j]) /\ items[j].tag = items[i].tag)

\* a packet with the right label, an accepted length form and nothing cut off
Complete(c) == c.family \in {"sequence", "context"} /\ c.cut = 0

\* ---------------------------------------------------------------------------
\* C25. For each integer tag carried at its declared width, the record holds
\* under the tag's field name the big-endian integer of the value bytes,
\* signed or unsigned as the table says, over the tag's scale; an item with
\* an unknown tag adds no field, and the items behind it are read from the
\* right place.
\* ---------------------------------------------------------------------------
C25_KnownTagsDecodedByTable ==
    (klv_done /\ Complete(klv_case)) =>
       LET items == klv_case.items
           all == 1..Len(items)
           t == klv_result.telemetry
       IN  /\ klv_result.applicable
           /\ \A i \in all :
                 LastCarrier(items, all, i) =>
                    /\ IntegerTags[items[i].tag].field \in DOMAIN t
                    /\ t[IntegerTags[items[i].tag].field] = ValueOf(items[i])
           /\ \A f \in DOMAIN t :
                 \/ f \in FloatFields
                 \/ \E i \in all : Carries(items[i]) /\ IntegerTags[items[i].tag].field = f

\* the smallest latitude, behind an item with the unknown tag 3
C25_Witness ==
    /\ klv_done
    /\ klv_case.family = "context"
    /\ klv_case.items = <<Item(3, <<1, 2>>), Item(13, <<128, 0, 0, 0>>)>>
    /\ DOMAIN klv_result.telemetry = {"latitude"}
    /\ klv_result.telemetry["latitude"] = [num |-> -2147483647 - 1, den |-> 10000000]

\* ---------------------------------------------------------------------------
\* C26. An item with a known tag and a length other than the tag's width
\* never produces that field, and does not abort parsing: every well-formed
\* item behind it is still decoded.
\* ---------------------------------------------------------------------------
C26_WrongWidthOmittedParsingGoesOn ==
    (klv_done /\ Complete(klv_case)) =>
       LET items == klv_case.items
           all == 1..Len(items)
           t == klv_result.telemetry
       IN  \A i \in all :
              (/\ items[i].tag \in DOMAIN IntegerTags
               /\ Len(items[i].value) # IntegerTags[items[i].tag].bytes) =>
                 /\ (\A j \in all : ~(Carries(items[j]) /\ items[j].tag = items[i].tag))
                       => IntegerTags[items[i].tag].field \notin DOMAIN t
                 /\ \A j \in all :
                       (j > i /\ LastCarrier(items, all, j)) =>
                          /\ IntegerTags[items[j].tag].field \in DOMAIN t
                          /\ t[IntegerTags[items[j].tag].field] = ValueOf(items[j])

\* a latitude item of three bytes, then an altitude item: altitude only
C26_Witness ==
    /\ klv_done
    /\ klv_case.family = "context"
    /\ klv_case.items = <<Item(13, <<18, 52, 86>>), Item(15, <<4, 210>>)>>
    /\ DOMAIN klv_result.telemetry = {"altitude"}
    /\ klv_result.telemetry["altitude"] = [num |-> 1234, den |-> 10]

\* ---------------------------------------------------------------------------
\* C27. decode never raises, and when a packet with the correct label is cut
\* short it returns the record of the fields decoded before the truncation.
\* ---------------------------------------------------------------------------
\* bytes before the first item, and the offset behind the item at i
HeaderLength(c) ==
    16 + (CASE c.form = "short" -> 1 [] c.form = "x81" -> 2 [] c.form = "x82" -> 3)

ItemEnd(c, i) ==
    LET upTo[j \in 0..i] ==
           IF j = 0 THEN HeaderLength(c) ELSE upTo[j - 1] + 2 + Len(c.items[j].value)
    IN  upTo[i]

\* the items the cut left whole
WholeItems(c, data) == {i \in 1..Len(c.items) : ItemEnd(c, i) <= Len(data)}

\* the record of exactly the fields the whole items carry
RecordBeforeTruncation(c, data, result) ==
    /\ result.applicable
    /\ \A i \in WholeItems(c, data) :
          LastCarrier(c.items, WholeItems(c, data), i) =>
             /\ IntegerTags[c.items[i].tag].field \in DOMAIN result.telemetry
             /\ result.telemetry[IntegerTags[c.items[i].tag].field] = ValueOf(c.items[i])
    /\ \A f \in DOMAIN result.telemetry :
          \E i \in WholeItems(c, data) :
             Carries(c.items[i]) /\ IntegerTags[c.items[i].tag].field = f

\* the BER length field is all there
LengthFieldComplete(data) ==
    /\ Len(data) > 16
    /\ data[17] = 129 => Len(data) >= 18
    /\ data[17] = 130 => Len(data) >= 19

\* C27 as stated: wherever a packet with the correct label is cut, the
\* length field included, the record of the fields before the cut comes back
C27_TruncatedPacketGivesPartialRecord ==
    (klv_done /\ klv_case.family = "sequence" /\ HasLabel(klv_data)) =>
       RecordBeforeTruncation(klv_case, klv_data, klv_result)

\* C27, amended: decode never raises; a packet with the correct label cut
\* inside an item (in its length byte or its value) gives the record of the
\* fields decoded before the truncation, and a packet cut inside the BER
\* length field gives None.
C27_TruncatedItemGivesPartialRecord ==
    (klv_done /\ klv_case.family = "sequence" /\ HasLabel(klv_data)) =>
       IF LengthFieldComplete(klv_data)
         THEN RecordBeforeTruncation(klv_case, klv_data, klv_result)
         ELSE klv_result = NotApplicable

\* an altitude item and a latitude item that lost its last two bytes
C27_Witness ==
    /\ klv_done
    /\ klv_case.family = "sequence"
    /\ klv_case.items = <<Item(15, <<4, 210>>), Item(13, <<23, 234, 80, 134>>)>>
    /\ klv_case.cut = 2
    /\ klv_result.applicable
    /\ DOMAIN klv_result.telemetry = {"altitude"}

\* ---------------------------------------------------------------------------
\* C28. Round trip: a record of scaled-integer fields, each encoded at its
\* declared width and sign as a tag/length/value item, behind the universal
\* label and a correct BER length, decodes to a record with exactly those
\* fields and the original raw integers over the declared scales.
\* ---------------------------------------------------------------------------
FieldScale(field) ==
    LET t == CHOOSE u \in DOMAIN IntegerTags : IntegerTags[u].field = field
    IN  IntegerTags[t].scale

C28_RoundTrip ==
    (klv_done /\ klv_case.family = "roundtrip") =>
       /\ klv_result.applicable
       /\ DOMAIN klv_result.telemetry = DOMAIN klv_record
       /\ \A f \in DOMAIN klv_record :
             klv_result.telemetry[f] = [num |-> klv_record[f], den |-> FieldScale(f)]

\* the record latitude 40.1234567, longitude -74.9876543, altitude 123.4
C28_Witness ==
    /\ klv_done
    /\ klv_case.family = "roundtrip"
    /\ DOMAIN klv_record = {"latitude", "longitude", "altitude"}
    /\ klv_result.telemetry["latitude"] = [num |-> 401234567, den |-> 10000000]
    /\ klv_result.telemetry["longitude"] = [num |-> -749876543, den |-> 10000000]
    /\ klv_result.telemetry["altitude"] = [num |-> 1234, den |-> 10]

\* ---------------------------------------------------------------------------
\* C29. For a four-element box and a positive frame size,
\* calculate_object_coordinates returns None exactly when latitude, longitude
\* or altitude is missing, or the computed camera elevation is >= 0, or its
\* absolute value is below 5 degrees. With the box centred and the pitch given
\* as gimbal_pitch_abs, an elevation of exactly 0 gives None, and elevations of
\* exactly -5 and -5.001 give a result that reports that elevation.
\* ---------------------------------------------------------------------------
RequiredMissing ==
    \E f \in {"latitude", "longitude", "altitude"} :
        f \notin DOMAIN geo_case.klv_data \/ geo_case.klv_data[f] = <<>>

ComputedElevation ==
    CameraElevation(geo_case.bbox, geo_case.klv_data,
                    geo_case.frame_width, geo_case.frame_height)

BoxCentred ==
    /\ geo_case.bbox[1] + geo_case.bbox[3] = geo_case.frame_width
    /\ geo_case.bbox[2] + geo_case.bbox[4] = geo_case.frame_height

\* the call was made with all required fields, a centred box and the absolute
\* gimbal pitch p, in thousandths of a degree
PitchedAt(p) ==
    /\ geo_done
    /\ ~RequiredMissing
    /\ BoxCentred
    /\ "gimbal_pitch_abs" \in DOMAIN geo_case.klv_data
    /\ geo_case.klv_data["gimbal_pitch_abs"] = <<p>>

C29_UnavailableExactlyWhen ==
    geo_done =>
       /\ (geo_result = NoResult) <=>
             \/ RequiredMissing
             \/ ComputedElevation.num >= 0
             \/ Magnitude(ComputedElevation.num) < 5000 * ComputedElevation.den
       /\ PitchedAt(0) => geo_result = NoResult
       /\ \A p \in {-5000, -5001} :
             PitchedAt(p) =>
                /\ geo_result # NoResult
                /\ geo_result.camera_elevation_deg = [num |-> p, den |-> 1]

\* an elevation of exactly -5 degrees gives a result
C29_Witness ==
    /\ PitchedAt(-5000)
    /\ geo_result # NoResult
    /\ geo_result.camera_elevation_deg = [num |-> -5000, den |-> 1]

\* ---------------------------------------------------------------------------
\* C30. Gimbal method selection: when any of gimbal_yaw_abs, gimbal_pitch_abs,
\* gimbal_roll_abs is present, a result is computed from the absolute angles
\* (defaults yaw 0, pitch -90) and carries gimbal_method absolute_world_frame;
\* otherwise, when any of gimbal_yaw_rel, gimbal_pitch_rel, gimbal_roll_rel is
\* present, from the platform angles plus the relative ones
\* (relative_approx_transform); otherwise from yaw = heading and pitch = -90
\* (fallback_nadir).
\* ---------------------------------------------------------------------------
AnyPresent(fields) == \E f \in fields : f \in DOMAIN geo_case.klv_data

FieldOr(field, default) ==
    IF field \in DOMAIN geo_case.klv_data THEN geo_case.klv_data[field][1] ELSE default

\* the method, yaw and pitch the selection rule names for the call's telemetry
SelectedGimbal ==
    IF AnyPresent({"gimbal_yaw_abs", "gimbal_pitch_abs", "gimbal_roll_abs"})
    THEN [method |-> "absolute_world_frame",
          yaw |-> FieldOr("gimbal_yaw_abs", 0),
          pitch |-> FieldOr("gimbal_pitch_abs", -90000)]
    ELSE IF AnyPresent({"gimbal_yaw_rel", "gimbal_pitch_rel", "gimbal_roll_rel"})
    THEN [method |-> "relative_approx_transform",
          yaw |-> FieldOr("heading", 0) + FieldOr("gimbal_yaw_rel", 0),
          pitch |-> FieldOr("gimbal_pitch_rel", -90000) + FieldOr("pitch", 0)]
    ELSE [method |-> "fallback_nadir",
          yaw |-> FieldOr("heading", 0),
          pitch |-> -90000]

C30_GimbalMethodSelection ==
    (geo_done /\ geo_result # NoResult) =>
       /\ geo_result.gimbal_method = SelectedGimbal.method
       /\ BoxCentred =>
             /\ geo_result.camera_elevation_deg = [num |-> SelectedGimbal.pitch, den |-> 1]
             /\ geo_result.camera_azimuth_deg =
                    [num |-> SelectedGimbal.yaw % 360000, den |-> 1]

\* ---------------------------------------------------------------------------
\* C31. Every result calculate_object_coordinates returns, for any box and any
\* telemetry (any gimbal pitch, any pixel offset), has
\* 0 <= camera_azimuth_deg < 360, camera_elevation_deg <= -5 and
\* estimated_ground_distance_m >= 0.
\* ---------------------------------------------------------------------------
C31_ResultWithinRanges ==
    (geo_done /\ geo_result # NoResult) =>
       /\ 0 <= geo_result.camera_azimuth_deg.num
       /\ geo_result.camera_azimuth_deg.num < 360000 * geo_result.camera_azimuth_deg.den
       /\ geo_result.camera_elevation_deg.num <= -5000 * geo_result.camera_elevation_deg.den
       /\ geo_result.estimated_ground_distance_m.sign >= 0

\* ---------------------------------------------------------------------------
\* C32. Look-forward scenario: altitude 100 m, heading 0, gimbal_yaw_abs 0,
\* gimbal_pitch_abs -30 and the box centred in the frame give
\* camera_elevation_deg = -30, estimated_ground_distance_m = 100 tan(60 deg),
\* about 173.2 m, and a target about 173.2 m north of the platform.
\* ---------------------------------------------------------------------------
LookForward ==
    /\ geo_done
    /\ geo_case.family = "scenario"
    /\ BoxCentred
    /\ geo_case.klv_data["altitude"] = <<100>>
    /\ geo_case.klv_data["heading"] = <<0>>
    /\ geo_case.klv_data["gimbal_yaw_abs"] = <<0>>
    /\ geo_case.klv_data["gimbal_pitch_abs"] = <<-30000>>

\* d millimetres is 173.2 m to the decimal given
About173m(d) == 173150 <= d /\ d < 173250

C32_LookForwardDistance ==
    LookForward =>
       /\ geo_result # NoResult
       /\ geo_result.camera_elevation_deg = [num |-> -30000, den |-> 1]
       /\ geo_result.estimated_ground_distance_m.millimetres # <<>>
       /\ About173m(geo_result.estimated_ground_distance_m.millimetres[1])
       /\ geo_result.displacement_mm # <<>>
       /\ About173m(geo_result.displacement_mm[1])
       /\ geo_result.displacement_mm[2] = 0

\* ---------------------------------------------------------------------------
\* C33. A failure of the UDP metadata send, of the SSE publish or of the TAK
\* submission for one frame is never propagated to the output stage: the
\* output loop ends only when the stop flag is set, no step of the output
\* thread sets the stop flag, the loop body always returns to the head of the
\* loop, and a frame taken after such a failure is handled normally (every
\* detection enriched, metadata built, frame written, both broadcasts
\* attempted) unless a call of its own raises outside the two broadcasts.
\* ---------------------------------------------------------------------------
OutputThreadStep == pcOut' # pcOut \/ out_last' # out_last

HandledInFull ==
    /\ out_last.metadata # <<>>
    /\ Len(out_last.metadata[1].detections) = Len(out_last.content.detections)
    /\ out_last.written
    /\ out_config.metadata_socket => out_last.udp \in {"sent", "failed"}
    /\ out_config.sse_broadcaster => out_last.sse \in {"sent", "failed"}

C33_FailuresStayInTheFrame ==
    /\ [](pcOut = "done" => stop_event)
    /\ [][OutputThreadStep => stop_event' = stop_event]_vars
    /\ []((out_last.frame # NoFrame /\ ~out_last.error) => HandledInFull)
    /\ [][(pcOut = "handle" /\ pcOut' # "handle") => pcOut' = "loop"]_vars

\* a frame handled in full after a failure in an earlier frame
C33_Witness ==
    /\ out_last.frame # NoFrame
    /\ out_last.after_fault
    /\ ~out_last.error
    /\ HandledInFull
    /\ ~stop_event
    /\ pcOut = "loop"

\* ---------------------------------------------------------------------------
\* C37. For every frame the output stage handles, the metadata packet lists
\* every detection of the frame exactly once and in detector order, with
\* detection_count equal to their number; a detection carries geo_coordinates
\* exactly when the georeferencer returned a result for it; exactly those
\* detections are forwarded to the TAK dispatcher (when the pipeline has one),
\* and the detections without a result are in the packet all the same.
\* ---------------------------------------------------------------------------
\* the georeferencer was called for detection i and returned a result
GeoReturned(i) == out_last.content.klv /\ out_last.content.detections[i] = "coords"

C37_MetadataListsEveryDetection ==
    (out_last.frame # NoFrame /\ out_last.metadata # <<>>) =>
        LET packet == out_last.metadata[1]
            n == Len(out_last.content.detections)
        IN  /\ Len(packet.detections) = n
            /\ packet.detection_count = n
            /\ \A i \in 1..n :
                  /\ packet.detections[i].detection = i
                  /\ packet.detections[i].geo_coordinates <=> GeoReturned(i)
            /\ \A i \in 1..n :
                  (\E k \in DOMAIN out_last.tak_calls : out_last.tak_calls[k] = i)
                      <=> (out_config.tak_sender /\ GeoReturned(i))
            /\ \A k \in DOMAIN out_last.tak_calls :
                  \A l \in DOMAIN out_last.tak_calls :
                     k < l => out_last.tak_calls[k] < out_last.tak_calls[l]

\* a frame of two detections, the first with a result and forwarded, the
\* second without a result and in the packet
C37_Witness ==
    /\ out_last.frame # NoFrame
    /\ out_last.metadata # <<>>
    /\ out_config.tak_sender
    /\ Len(out_last.content.detections) = 2
    /\ GeoReturned(1)
    /\ ~GeoReturned(2)
    /\ out_last.tak_calls = <<1>>
    /\ out_last.metadata[1].detection_count = 2
    /\ ~out_last.metadata[1].detections[2].geo_coordinates

\* ---------------------------------------------------------------------------
\* C34. decode never decodes a field from bytes outside the declared BER
\* value region: an item that reaches behind the declared end ends the
\* parsing, also when the blob has bytes behind that end, so the record holds
\* exactly the fields of the items that lie within the declared region.
\* ---------------------------------------------------------------------------
\* the offset the length field declares as the end of the value region
DeclaredEnd(c) == HeaderLength(c) + Len(ItemsBytes(c.items)) - Undeclared(c)

\* the items that lie within the declared region
ItemsWithin(c) == {i \in 1..Len(c.items) : ItemEnd(c, i) <= DeclaredEnd(c)}

C34_NothingReadPastDeclaredEnd ==
    (klv_done /\ klv_case.family = "overrun") =>
       /\ klv_result.applicable
       /\ \A i \in ItemsWithin(klv_case) :
             LastCarrier(klv_case.items, ItemsWithin(klv_case), i) =>
                /\ IntegerTags[klv_case.items[i].tag].field \in DOMAIN klv_result.telemetry
                /\ klv_result.telemetry[IntegerTags[klv_case.items[i].tag].field]
                      = ValueOf(klv_case.items[i])
       /\ \A f \in DOMAIN klv_result.telemetry :
             \E i \in ItemsWithin(klv_case) :
                Carries(klv_case.items[i]) /\ IntegerTags[klv_case.items[i].tag].field = f

\* the batch timer thread leaves its check of the pending list with a batch
TimerHandsBatch == pcTimer = "tick" /\ pcTimer' = "batch"

\* the batch timer thread leaves its check of the pending list without one
TimerHandsNothing == pcTimer = "tick" /\ pcTimer' = "wait"

Disconnected == pcDisc = "done"

\* C38: after disconnect() has returned the dispatcher takes in no further
\* detection: no later call of send_detection returns True, none adds to the
\* pending list.
C38_NothingAcceptedAfterDisconnect ==
    [][Disconnected =>
          /\ submitted' = submitted
          /\ pending_detections' = pending_detections
          /\ (send_result' # send_result => send_result' = "False")
      ]_vars

\* ---------------------------------------------------------------------------
\* Properties of the dispatcher, statement by statement
\* ---------------------------------------------------------------------------
\* the mutex that guards an attribute of the dispatcher
GuardOf(attr) ==
    CASE attr = "pending_detections" -> BatchLock
      [] attr = "last_send_time" -> RateLimitLock
      [] attr = "connected" -> ConnectionLock

\* C36: every read and write of pending_detections, of the track_id ->
\* last_send map and of the connected flag is made by a thread that holds the
\* mutex guarding it (batch_lock, rate_limit_lock, self.lock), in
\* send_detection, the batch timer, the sender thread and disconnect().
C36_SharedStateUnderItsMutex ==
    \A a \in access : GuardOf(a.attr) \in a.under

\* the sender thread holds no message, no put_nowait is being counted and no
\* "messages_dropped += 1" is under way
NoStepInProgress ==
    /\ pcSender \in {"loop", "get", "done"}
    /\ message = <<>>
    /\ pcItem = "rate"
    /\ \A t \in Threads : dropped_read[t] = <<>>

\* C39: the messages handed to put_nowait are all accounted for, under every
\* interleaving of the sender thread, the batch timer and disconnect():
\* whenever no step is in progress, attempts = messages_sent +
\* messages_dropped + messages in the send queue (no increment is lost).
C39_MessageAccountingConserved ==
    NoStepInProgress =>
        attempts = messages_sent + messages_dropped + Len(message_queue)

\* ---------------------------------------------------------------------------
\* Properties of the WebSocket writer
\* ---------------------------------------------------------------------------
\* C40: the event loop of WebSocketWriter never deadlocks: its thread never
\* waits in the acquire of self._lock, every scheduled _broadcast completes
\* and every client handler gets the lock to add its connection.
C40_EventLoopNeverDeadlocks ==
    /\ [](ws_blocked = NotBlocked)
    /\ \A b \in Broadcasts :
          (pcBroadcast[b] = "scheduled") ~> (pcBroadcast[b] = "done")
    /\ \A c \in WsClients :
          (ws_handler[c] = "prepared") ~> (ws_handler[c] \in {"listening", "done"})

====
